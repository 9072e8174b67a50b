CONSTANTS
    Setups <- MCSetups
SPECIFICATION FairSpec
INVARIANTS
    MediaMeetsAPlayingPipeline
    CallbacksAreServed
    AnnouncedFilesExist
    RecordedFilesAreAnnounced
    ReleasedOnlyWhenUnused
PROPERTIES
    PipelineIsDeleted
    SlicesEnd
CHECK_DEADLOCK FALSE
