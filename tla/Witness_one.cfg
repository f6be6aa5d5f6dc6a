SPECIFICATION Spec
CONSTANTS
    p = p
    q = q
    r1 = r1
    t1 = t1
    t2 = t2
    a1 = a1
    a2 = a2
    a3 = a3
    v = v
    key1 = key1
    key2 = key2
    key3 = key3
    Nobody = Nobody
    NotRetired = NotRetired
    Ledgers = {p, q}
    RegisterCalls = {r1}
    RetireCalls = {t1, t2}
    AttestCalls = {a1, a2, a3}
    VerifyCalls = {v}
    Owner <- MCOneLedgerPerWitness
    KeyOf <- MCKeyOf
    SignsWith <- MCSignsWith
    PublicKeys <- MCPublicKeys
    Registered <- MCRegistered
    WitnessOf <- MCWitnessOf
    MaxHead = 2
    MaxCalls = 4
INVARIANTS
    TypeOK
    SubchainsLinked
    HeadsAscend
    LinksVerify
    SignatureFailuresExplained
    UnknownIsNew
    RetiredNeverAttests
PROPERTIES
    RetirementIsKept
SYMMETRY MCSymmetry
