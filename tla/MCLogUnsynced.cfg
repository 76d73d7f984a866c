SPECIFICATION Spec
CONSTANTS
    Parts = {"log"}
    \* Pbft
    Witnesses = {"w1", "w2", "w3"}
    NextCommittee = {"w1", "w2"}
    Proposer = "w2"
    Proposed = "a"
    Views = {1}
    Datas = {"a", "b"}
    LocalSigners <- MCSigners
    Quorum = 2
    MaxRounds = 1
    MaxVotes = 2
    MaxRoundBytes = 5
    MaxRetained = 5
    RoundTimeout = 0
    VoteTtl = 0
    MaxTime = 1
    \* BackupRole
    Members = {"a", "b"}
    Priorities <- MCPriorities
    IpRank <- MCIpRank
    TimeoutUnits = 2
    MaxFaults = 2
    \* Dpos
    Candidates = {1, 2, 3}
    Voters = {"v", "u"}
    MaxActive = 2
    LocalWitnesses = {1}
    SkipSlots = 1
    Epoch = 2
    RingSize = 3
    QuietSlots = 2
    SeenCapacity = 1
    MinParticipation = 50
    Versions = {1, 2}
    ForkRate = 80
    MaxBlocks = 3
    MaxClock = 4
    MaxVoteChanges = 2
    \* Rewards
    Reps = {"x"}
    Electors = {"v", "u"}
    Ballots <- MCBallots
    BlockPay = 5
    StandbyPay = 4
    Fees = {5}
    Rates = {60}
    Scale = 12
    EffectiveCycle = 4
    GenesisDelegation = {TRUE, FALSE}
    MaxCycle = 2
    MaxPaid = 1
    MaxBallots = 3
    \* Staking
    Accounts = {"a", "b"}
    Kinds = {"bandwidth", "power"}
    Stake <- MCStake
    Allowance <- MCAllowance
    Trx = 2
    Amounts = {1, 2, 3}
    UnfreezeDelay = 1
    FrozenTime = 1
    LockPeriods = {1, 2}
    MaxUnfreezing = 1
    NewReward = FALSE
    DelegateOptimization = FALSE
    MaxStakeOps = 3
    MaxStakeTime = 3
    \* RustLog
    LogKeys = {1, 2, 3}
    MarketKeys = {2, 3}
    PriceOf <- MCPrice
    Batches <- MCBatches
    MaxOps = 2
    MaxEntries = 2
    SyncOnWrite = FALSE
    CompactAfter = 2
    MaxWrites = 2
    MaxLogFaults = 2
    \* StoreFormat
    Snapshots <- MCSnapshots
    MaxRootOps = 5
    MaxRootFaults = 3
    \* StoreTransaction
    Modes = {"create", "replace", "move"}
    MaxTxRuns = 2
    MaxTxFaults = 3
    \* ApiGateway
    Calls = {1, 2}
    Requests <- MCRequests
    Workers = 1
    Slots = 1
    MaxConnections = 1
    Preemptible = {"broadcast_transaction"}
    IpLimited = {"get_now_block"}
    MaxBuckets = 1
    Disabled = {"get_block_by_num"}
    MaxHeight = 1
    \* Keystore
    Files = {"f", "g"}
    WalletKeys = {"k"}
    Passwords = {"p", "s"}
    ShortPasswords = {"s"}
    MaxWallets = 3
    MaxKsFaults = 2
    \* ReleaseInstall
    Ids = {"r1", "r2", "r3"}
    NoRelease = "none"
    Manifest <- MCManifest
    Channel = "stable"
    Platform = "x64"
    MinimumSequence = 1
    Required = {"node", "sbom", "prov", "image"}
    Stores <- MCStores
    FirstStore <- MCFirstStore
    Updates <- MCUpdates
    Times = {0, 1}
    Retain = 1
    MaxRelFaults = 1
    \* Network
    Remotes = {"r", "s"}
    Txs = {}
    Blocks = {"blk"}
    LocalHead = 1
    RemoteHeads = {2}
    AdvTimeout = 0
    CommonTimeout = 0
    ProviderTtl = 1
    MaxNetTime = 1
    \* NodeServices
    Compositions <- MCCompositions
    Outlets = {"plugin", "zeromq"}
    TriggerModes <- MCTriggerModes
    StartSync = 2
    EventBatches <- MCEventBatches
    QueueCaps <- MCQueueCaps
    RetryLimit = 1
    SendHwm = 1
    MaxEvents = 2
    MaxNodeCalls = 2
    MaxNodeFaults = 1
INVARIANT DurablePrefix
CHECK_DEADLOCK FALSE
