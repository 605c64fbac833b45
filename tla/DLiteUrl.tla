------------------------------ MODULE DLiteUrl ------------------------------
(***************************************************************************)
(* The metadata url helpers of dlite.c: dlite_join_metadata builds         *)
(* "namespace/version/name" and dlite_split_metadata takes it apart by a   *)
(* backward scan for the last and the second-to-last '/'.  A string is a   *)
(* sequence of characters; the split is modelled as the pointer arithmetic *)
(* of the code (1-based positions), and compared with the split the        *)
(* specification defines (section 4.1).                                    *)
(***************************************************************************)
EXTENDS Integers, Sequences, SequencesExt

CONSTANTS
    Letters,   \* characters other than '/'
    MaxLen,    \* bound on the length of a url given to split
    Words      \* the name, version and namespace strings given to join

Slash == "/"

Chars == Letters \cup {Slash}

ASSUME UrlAssumption ==
    /\ Slash \notin Letters
    /\ MaxLen \in Nat
    /\ Words \subseteq Seq(Chars)

(* Every string of at most MaxLen characters. *)
Strings == UNION {[1..n -> Chars] : n \in 0..MaxLen}

VARIABLES
    url,       \* the url last joined, or given to split by the caller
    joined,    \* <<name, version, namespace>> url was joined from, or <<>>
    out        \* the result of the last split, or NoResult

vars == <<url, joined, out>>

NoResult == [status |-> "none"]

Failed == [status |-> "fail"]

Crashed == [status |-> "crash"]

Parts(n, v, ns) == [status |-> "ok", name |-> n, version |-> v, namespace |-> ns]

JoinUrl_swapped(n, v, ns) == n \o <<Slash>> \o v \o <<Slash>> \o ns

(* snprintf(metadata, size, "%s/%s/%s", namespace, version, name) into a   *)
(* buffer of strlen(name) + strlen(version) + strlen(namespace) + 3 bytes. *)
JoinUrl(n, v, ns) == ns \o <<Slash>> \o v \o <<Slash>> \o n

(* The positions of '/' in s. *)
SlashesIn(s) == {k \in 1..Len(s) : s[k] = Slash}

CodeSplit_versionFromQ(s) ==
    IF SlashesIn(s) = {} THEN Failed
    ELSE
      LET p == Max(SlashesIn(s))
          before == {k \in 2..p - 1 : s[k] = Slash}
          q == IF p = 1 THEN 0
               ELSE IF before = {} THEN 1 ELSE Max(before)
      IN  CASE q = 0 -> Crashed
            [] q = 1 -> Failed
            [] OTHER -> Parts(SubSeq(s, p + 1, Len(s)),
                              SubSeq(s, q, p - 1),
                              SubSeq(s, 1, q - 1))

(***************************************************************************)
(* dlite_split_metadata.  p is strrchr's last '/'.  q starts one before it *)
(* and walks back while *q != '/' and q > metadata, so it stops at the     *)
(* previous '/' or at position 1, whatever character is there.  When p is *)
(* the first character, q starts before the buffer: the loop reads that    *)
(* byte (undefined behaviour), stops, and the namespace copy is given the  *)
(* length q - metadata + 1 - 1 = -1, converted to SIZE_MAX by memcpy.      *)
(***************************************************************************)
CodeSplit(s) ==
    IF SlashesIn(s) = {} THEN Failed
    ELSE
      LET p == Max(SlashesIn(s))
          before == {k \in 2..p - 1 : s[k] = Slash}
          q == IF p = 1 THEN 0
               ELSE IF before = {} THEN 1 ELSE Max(before)
      IN  CASE q = 0 -> Crashed
            [] q = 1 -> Failed
            [] OTHER -> Parts(SubSeq(s, p + 1, Len(s)),
                              SubSeq(s, q + 1, p - 1),
                              SubSeq(s, 1, q - 1))

(* The split of the specification: around the last and second-to-last '/', *)
(* failing when there are fewer than two.                                   *)
SpecSplit(s) ==
    IF Cardinality(SlashesIn(s)) < 2 THEN Failed
    ELSE LET p == Max(SlashesIn(s))
             q == Max(SlashesIn(s) \ {p})
         IN  Parts(SubSeq(s, p + 1, Len(s)), SubSeq(s, q + 1, p - 1),
                   SubSeq(s, 1, q - 1))

Init ==
    /\ url \in Strings
    /\ joined = <<>>
    /\ out = NoResult

(* dlite_join_metadata(name, version, namespace). *)
JoinMetadata(n, v, ns) ==
    /\ url' = JoinUrl(n, v, ns)
    /\ joined' = <<n, v, ns>>
    /\ out' = NoResult

(* The caller passes a url of its own to dlite_split_metadata. *)
GiveUrl(s) ==
    /\ url' = s
    /\ joined' = <<>>
    /\ out' = NoResult

(* dlite_split_metadata(url, &name, &version, &namespace). *)
SplitMetadata ==
    /\ out = NoResult
    /\ out' = CodeSplit(url)
    /\ UNCHANGED <<url, joined>>

Next ==
    \/ \E n, v, ns \in Words : JoinMetadata(n, v, ns)
    \/ \E s \in Strings : GiveUrl(s)
    \/ SplitMetadata

Spec == Init /\ [][Next]_vars

-----------------------------------------------------------------------------
(***************************************************************************)
(* Spec 8, url round-trip: splitting what dlite_join_metadata built from a *)
(* non-empty name, version and namespace without '/' gives them back.      *)
(***************************************************************************)
Plain(w) == w # <<>> /\ \A k \in 1..Len(w) : w[k] # Slash

RoundTrip ==
    (joined # <<>> /\ out # NoResult /\ \A k \in 1..3 : Plain(joined[k]))
        => out = Parts(joined[1], joined[2], joined[3])

(***************************************************************************)
(* When dlite_split_metadata succeeds, its three strings are the ones the  *)
(* specification's split gives, for any url, '/' in odd places included.  *)
(***************************************************************************)
SplitSound ==
    out.status = "ok" => out = SpecSplit(url)

(***************************************************************************)
(* dlite_split_metadata returns, successfully or with an error, on every  *)
(* url: no url makes it read outside the string or copy SIZE_MAX bytes.    *)
(***************************************************************************)
SplitNeverCrashes == out # Crashed

(***************************************************************************)
(* When dlite_split_metadata returns, it fails exactly when the url has    *)
(* fewer than two '/', as the specification says of split.                *)
(***************************************************************************)
SplitAgreesWithSpec ==
    out \notin {NoResult, Crashed} => out = SpecSplit(url)
=============================================================================
