\* Every function, on inputs around the ends of its ranges.
CONSTANTS
    None = None
    Bad = Bad
    AnyTag = AnyTag
    Nil = Nil
    NaN = NaN
    Kind <- MCKind
    Word = 4
    StaticInputs <- MCStaticInputs
    DomainInputs <- MCDomainInputs
    SegmentInputs <- MCSegmentInputs
    ForwardInputs <- MCForwardInputs
    ConfigInputs <- MCConfigInputs
    TLSInputs <- MCTLSInputs
    ClientInputs <- MCClientInputs
    SumInputs <- MCSumInputs
    KeyInputs <- MCKeyInputs
    TLS13 = 3
    Suites <- MCSuites
SPECIFICATION Spec
INVARIANTS
    AnswerFitsTheRequest
    MostSpecificDomainWins
    ExtractInverts
    ForwardStops
    LastFileThenTemplate
    TransportIsAsConfigured
    NumbersFit
