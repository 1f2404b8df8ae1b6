\* Two commands on two hosts, so that they compete on one host or for one token.
CONSTANTS
    Hosts = {h1, h2}
    Procs = {p1, p2}
    Tokens = {t1, t2}
    CAs = {}
    None = None
SPECIFICATION Spec
SYMMETRY Symmetry
INVARIANTS
    IdentityTruthful
    RegisteredKeyIsKept
    OneAgentPerTokenAndKey
PROPERTIES
    IdentityIsFinal
