SPECIFICATION Spec
CONSTANTS
    TAR_BLOCK_SIZE = 2
    RAMDISK_PATH_SIZE = 9
    ZeroBlock = ZeroBlock
    NoDisk = NoDisk
    NoFile = NoFile
    ModuleLists <- MCModuleLists
    Queries <- MCQueries
INVARIANTS PathsFit FindsWhatWasArchived ListsChildrenOnce ListingAgreesWithOpen
