SPECIFICATION Spec
CONSTANTS
    t1 = t1
    t2 = t2
    lifespan = lifespan
    deepseek = deepseek
    qwen35 = qwen35
    qwen38 = qwen38
    embed = embed
    node = node
    aux = aux
    Callers = {t1, t2}
    Lifespan = lifespan
    Profiles = {deepseek, qwen35, qwen38}
    ProfileOrder <- ThreeModels
    NoProfile = NoProfile
    Default = deepseek
    AllModels <- ThreeModels
    ModelsOf <- OneModelEach
    ContainerOf <- SharedContainer
    Nodes <- CatalogNodes
    Faults = {"verify", "lost", "slow", "die"}
    MaxCrashes = 1
INVARIANTS
    TypeOK
    SwapsExclude
    NoForeignServe
    PersistedIsActive
PROPERTIES
    NoReload
    ResumesClaimed
