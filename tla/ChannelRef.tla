----------------------------- MODULE ChannelRef -----------------------------
(***************************************************************************)
(* Channel references (pkg/channel/references.go): a channel's namespace  *)
(* and name, parsed from a request's Host header or URL path.  A string  *)
(* is a sequence of characters from a small alphabet; strings.Split and *)
(* strings.TrimSuffix are given by what they compute.                    *)
(* The parsers are checked against reference definitions of the formats  *)
(* they read: "<name>.<namespace>[.<anything>]" and                       *)
(* "/<namespace>/<name>[/]".  The state is the input under test.          *)
(***************************************************************************)
EXTENDS Naturals, Sequences, FiniteSets, SequencesExt

CONSTANTS
    Letters,    \* the characters a name may hold
    MaxLen      \* the longest host or path tried

Slash == "/"
Dot == "."

\* The name characters are not separators, and the length bound is a number.
ASSUME LettersAssumption == Slash \notin Letters /\ Dot \notin Letters /\ MaxLen \in Nat

\* The cut points of s at sep: 0, every position holding sep, and Len(s) + 1.
Cuts(s, sep) == {0, Len(s) + 1} \cup {i \in 1 .. Len(s) : s[i] = sep}

\* How many cut points lie before p.
Rank(C, p) == Cardinality({q \in C : q < p})

\* The cut point with k cut points before it (the k-th, counting from 0).
NthCut(C, k) == CHOOSE p \in C : Rank(C, p) = k

\* strings.Split(s, sep) for a one-character separator: the pieces between
\* consecutive cut points, one more than there are separators ("" gives
\* <<"">>).
Split(s, sep) ==
    LET C == Cuts(s, sep)
    IN  [k \in 1 .. Cardinality(C) - 1 |->
            SubSeq(s, NthCut(C, k - 1) + 1, NthCut(C, k) - 1)]

\* strings.TrimSuffix(s, suffix) for a one-character suffix.
TrimSuffix(s, ch) == IF s # <<>> /\ Last(s) = ch THEN Front(s) ELSE s

\* A ChannelReference with the error returned beside it: ok is err == nil;
\* on an error the reference is ChannelReference{}.
Ref(ns, name) == [ok |-> TRUE, namespace |-> ns, name |-> name]
Error == [ok |-> FALSE, namespace |-> <<>>, name |-> <<>>]

\* Mutant: the host parser reading the namespace from the first chunk.
ParseChannelFromHostSwapped(host) ==
    LET chunks == Split(host, Dot)
    IN IF Len(chunks) < 2 THEN Error ELSE Ref(chunks[1], chunks[2])

\* ParseChannelFromHost: fewer than two dot-separated chunks is an error;
\* the first chunk is the name and the second the namespace.
ParseChannelFromHost(host) ==
    LET chunks == Split(host, Dot)
    IN IF Len(chunks) < 2 THEN Error ELSE Ref(chunks[2], chunks[1])

\* Mutant: the path parser without the TrimSuffix of a trailing slash.
ParseChannelFromPathNoTrim(path) ==
    LET parts == Split(path, Slash)
    IN IF Len(parts) # 3 THEN Error ELSE Ref(parts[2], parts[3])

\* ParseChannelFromPath: one trailing slash trimmed, then exactly three
\* slash-separated parts: "", the namespace, the name.
ParseChannelFromPath(path) ==
    LET parts == Split(TrimSuffix(path, Slash), Slash)
    IN IF Len(parts) # 3 THEN Error ELSE Ref(parts[2], parts[3])

-----------------------------------------------------------------------------
(* Reference definitions of the formats *)

\* The slash-free substrings of s (the empty one included).
Segments(s) ==
    {seg \in {SubSeq(s, i, j) : i \in 1 .. Len(s) + 1, j \in 0 .. Len(s)} :
        Slash \notin ToSet(seg)}

\* "/<namespace>/<name>" with at most one trailing slash, both segments
\* non-empty (Kubernetes names are).
IntendedPath(path) ==
    LET forms(ns, name) == {<<Slash>> \o ns \o <<Slash>> \o name,
                            <<Slash>> \o ns \o <<Slash>> \o name \o <<Slash>>}
        refs == {Ref(ns, name) : ns, name \in Segments(path) \ {<<>>}}
        match == {r \in refs : path \in forms(r.namespace, r.name)}
    IN IF match = {} THEN Error ELSE CHOOSE r \in match : TRUE

\* A host label separator.
IsDot(ch) == ch = Dot

\* The name is what precedes the first dot; the namespace runs from there
\* to the next dot or the end.  A host without a dot names no channel.
IntendedHost(host) ==
    LET i == SelectInSeq(host, IsDot)
        rest == SubSeq(host, i + 1, Len(host))
        j == SelectInSeq(rest, IsDot)
    IN IF i = 0 THEN Error
       ELSE Ref(SubSeq(rest, 1, IF j = 0 THEN Len(rest) ELSE j - 1),
                SubSeq(host, 1, i - 1))

-----------------------------------------------------------------------------
(* The inputs *)

Paths == {<<Slash>> \o s : s \in BoundedSeq(Letters \cup {Slash}, MaxLen - 1)}
Hosts == BoundedSeq(Letters \cup {Dot}, MaxLen)

VARIABLE input      \* the call under test: its kind and argument

Init == input = [kind |-> "path", arg |-> <<Slash>>]

ParsePath == \E p \in Paths : input' = [kind |-> "path", arg |-> p]
ParseHost == \E h \in Hosts : input' = [kind |-> "host", arg |-> h]

Next == ParsePath \/ ParseHost

Spec == Init /\ [][Next]_input

-----------------------------------------------------------------------------
(* Properties *)

\* A reference with both segments non-empty.
NonEmptyRef(r) == r.ok /\ r.namespace # <<>> /\ r.name # <<>>

\* ParseChannelFromPath accepts every "/<namespace>/<name>" with an
\* optional trailing slash and returns those two segments; and whenever
\* it returns two non-empty segments, the path was of that form.
PathParseMatchesReference ==
    LET p == input.arg
    IN  (input.kind = "path" /\
         (IntendedPath(p).ok \/ NonEmptyRef(ParseChannelFromPath(p))))
        => ParseChannelFromPath(p) = IntendedPath(p)

\* ParseChannelFromPath never returns a reference with an empty namespace
\* or name: a path it accepts is "/<namespace>/<name>[/]".
PathSegmentsNonEmpty ==
    (input.kind = "path" /\ ParseChannelFromPath(input.arg).ok)
        => NonEmptyRef(ParseChannelFromPath(input.arg))

\* ParseChannelFromHost reads the name from the first label and the
\* namespace from the second, and rejects a host without a dot.
HostParseMatchesReference ==
    input.kind = "host" => ParseChannelFromHost(input.arg) = IntendedHost(input.arg)

=============================================================================
