SPECIFICATION ScheduledSpec
CONSTANTS
    PollBlocks = 16
    SeedCount = 5
    Width = 5
    PollsPerSeed = 6
PROPERTY
    EventuallySeeded
