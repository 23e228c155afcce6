----------------------------- MODULE ConfigTree -----------------------------
(***************************************************************************)
(* Parsed JSON objects, as the runtime convergence scripts read, write and *)
(* compare them.  An object is a function from paths to what is there: a   *)
(* scalar (a list counts as one) or Dict, an object whose keys are paths   *)
(* of their own.  A path is a nonempty sequence of keys; the root is not   *)
(* in the function, since it is always an object.                          *)
(***************************************************************************)
EXTENDS Sequences, SequencesExt, FiniteSetsExt

CONSTANTS
    Dict,           \* an object
    Redacted,       \* "***REDACTED***"
    Key,            \* the keys that objects have
    SecretKey,      \* keys that contain a word of key_blocklist
    SecretValue,    \* strings that look like a credential
    None            \* stands for Python's None: no such key

\* The mark of a redaction and an object are not what it looks for, and
\* nothing found is told from what can be found.  (JSON's null is a scalar.)
ASSUME KindsAssumption ==
    /\ Dict \notin SecretValue
    /\ Dict # Redacted /\ Dict # None /\ Redacted # None

Path == Seq(Key) \ {<<>>}

ParentsOf(p) == {SubSeq(p, 1, n) : n \in 1..(Len(p) - 1)}

\* Every path of an object lies inside objects.
IsTree(c) == \A p \in DOMAIN c : \A q \in ParentsOf(p) :
    q \in DOMAIN c /\ c[q] = Dict

\* A parsed object: a tree that says something of each of its paths.
IsObject(c) ==
    /\ DOMAIN c \subseteq Path
    /\ \A p \in DOMAIN c : c[p] # None
    /\ IsTree(c)

\* get_path (and verify's get): None when the path is not there.
Get(c, p) == IF p \in DOMAIN c THEN c[p] ELSE None

\* Mutant of SetPath: the objects on the way are not made.
SetPathAlone(c, p, v) ==
    [q \in {r \in DOMAIN c : ~ IsStrictPrefix(p, r)} \cup {p} |->
        IF q = p THEN v ELSE c[q]]

\* Mutant of SetPath: the innermost object is always a new one.
SetPathAfresh(c, p, v) ==
    [q \in {r \in DOMAIN c : ~ IsStrictPrefix(Front(p), r)} \cup ParentsOf(p) \cup {p} |->
        IF q = p THEN v ELSE IF q \in ParentsOf(p) THEN Dict ELSE c[q]]

\* set_path: whatever on the way is not an object becomes one, and what was
\* below the path goes.
SetPath(c, p, v) ==
    [q \in {r \in DOMAIN c : ~ IsStrictPrefix(p, r)} \cup ParentsOf(p) \cup {p} |->
        IF q = p THEN v ELSE IF q \in ParentsOf(p) THEN Dict ELSE c[q]]

\* Mutant of Changes: looks at the keys of the first object only.
ChangesOfFirst(a, b) ==
    {p \in DOMAIN a :
        /\ \A q \in ParentsOf(p) : Get(a, q) = Dict /\ Get(b, q) = Dict
        /\ Get(a, p) # Get(b, p)}

\* flatten_changes: descends where both have an object; reports a key that
\* one lacks, a change of type, and a scalar that differs.
Changes(a, b) ==
    {p \in DOMAIN a \cup DOMAIN b :
        /\ \A q \in ParentsOf(p) : Get(a, q) = Dict /\ Get(b, q) = Dict
        /\ Get(a, p) # Get(b, p)}

\* redact: a secret key hides all that is below it, a string that looks like
\* a credential only itself.
Redact(c) ==
    [p \in {r \in DOMAIN c : \A q \in ParentsOf(r) : Last(q) \notin SecretKey} |->
        IF Last(p) \in SecretKey \/ c[p] \in SecretValue THEN Redacted ELSE c[p]]
=============================================================================
