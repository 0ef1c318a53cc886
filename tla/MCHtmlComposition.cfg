SPECIFICATION Spec
CONSTANTS
    MaxIdWords = 6
    MaxScriptureText = 45
    MaxLabel = 40
    MaxTreeDepth = 10
    MaxChildren = 9
    MaxTotalElements = 93
    AIResults <- MCAIResults
    OtherPublications <- MCPublications
INVARIANTS
    AcceptedDocumentsSound
    SoundPublicationsCompose
    GuidesCompose
    GuidesFaithful
\* Each behaviour is one build and one composition.
CHECK_DEADLOCK FALSE
