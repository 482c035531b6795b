SPECIFICATION Spec
CONSTANTS
    t1 = t1
    t2 = t2
    lifespan = lifespan
    deepseek = deepseek
    qwen35 = qwen35
    qwen38 = qwen38
    embed = embed
    node = node
    aux = aux
    Callers = {t1, t2}
    Lifespan = lifespan
    Profiles = {deepseek, qwen35}
    ProfileOrder <- TwoModels
    NoProfile = NoProfile
    Default = deepseek
    AllModels <- TwoModels
    ModelsOf <- OneModelEach
    ContainerOf <- SharedContainer
    Nodes <- CatalogNodes
    Faults = {"kill"}
    MaxCrashes = 1
PROPERTIES
    AdoptionRemovesOthers
