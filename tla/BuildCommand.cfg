\* Builds one after the other in a small directory.
SPECIFICATION Spec
CONSTANTS
    HardMax = 2
    Floor = 1
    MaxBytes = 15
    Flags <- FlagValues
    Envs <- EnvValues
    Sizes <- SomeSizes
    Disk = 7
    Runs = 3
    Elsewhere = 1
    None = None
    Garbage = Garbage
INVARIANTS HeadroomKept CeilingKept ScratchRemoved
