SPECIFICATION TwoFASpec
CONSTANTS
    None = None
    p1 = p1
    p2 = p2
    s1 = s1
    s2 = s2
    k1 = k1
    k2 = k2
    k3 = k3
    b1 = b1
    b2 = b2
    r1 = r1
    r2 = r2
    Password = {p1, p2}
    Secret = {s1, s2}
    Key = {k1, k2, k3}
    Code = {b1, b2}
    BatchSize = 1
    Request = {r1}
    Feature <- AllFeatures
    MaxFaults = 2
    MaxResets = 1
SYMMETRY Symmetry
INVARIANTS
    TwoFATypeOK
    OneSecret
    RecoveryKeyWorks
PROPERTY FactorSpec
