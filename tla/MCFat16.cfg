SPECIFICATION Spec
CONSTANT Volumes <- MCVolumes
CONSTRAINT Sound
VIEW View
INVARIANTS ReadersAgree ChainsSound 
 
