SPECIFICATION Spec
CONSTANTS
    t1 = t1
    t2 = t2
    lifespan = lifespan
    deepseek = deepseek
    qwen35 = qwen35
    qwen38 = qwen38
    embed = embed
    node = node
    aux = aux
    Callers = {t1, t2}
    Lifespan = lifespan
    Profiles = {deepseek, qwen38}
    ProfileOrder <- DuoProfiles
    NoProfile = NoProfile
    Default = deepseek
    AllModels <- WithEmbed
    ModelsOf <- DuoModels
    ContainerOf <- DuoContainers
    Nodes <- DuoNodes
    Faults = {"kill", "launch", "slow"}
    MaxCrashes = 1
SYMMETRY CallerSymmetry
INVARIANTS
    DispatchableIsUp
