\* Two usable entries and one that is no JSON object; up to three entries in a
\* session, so that an entry can be repeated next to another one.
CONSTANTS
    Entries = {e1, e2, junk}
    Objects = {e1, e2}
    Algs = {sha256, sha384}
    OtherAlg = OtherAlg
    MaxEntries = 3
SPECIFICATION Spec
INVARIANTS
    TypeOK
    AcceptedIsConfirmed
    ConfirmedIsAccepted
    HonestWalletOutcome
