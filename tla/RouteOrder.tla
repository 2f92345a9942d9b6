----------------------------- MODULE RouteOrder -----------------------------
(***************************************************************************)
(* The order of the Envoy routes of a virtual host, of which the first one *)
(* that matches answers (sortRoutes, pkg/translator/envoy/httproute.go).   *)
(*                                                                         *)
(* A path is its words and whether it ends with a slash.  Every word has   *)
(* one letter, so that the length of the string follows from the number of *)
(* words.  A regular expression is its name.                               *)
(***************************************************************************)
EXTENDS Integers, Sequences, SequencesExt, FiniteSets

CONSTANTS Regexes,      \* name -> [length, paths]: of the string compared, and what it matches
          StableUpTo    \* 12 in Go: a slice up to this length is sorted by insertion

ASSUME StableUpToAssumption == StableUpTo \in Nat
ASSUME RegexesAssumption == \A r \in DOMAIN Regexes : Regexes[r].length \in Nat

Paths == [words : Seq(STRING), slash : BOOLEAN]

Root == [words |-> <<>>, slash |-> TRUE]

Letters(path) == 2 * Len(path.words) + (IF path.slash THEN 1 ELSE 0)

PathLength(m) == IF m.kind = "regex" THEN Regexes[m.path].length ELSE Letters(m.path)

IsCatchAll(m) == m.kind = "prefix" /\ m.path = Root /\ m.headers = {} /\ m.params = {}

KeyHeadersFirst(m) ==    \* mutant: the headers are counted before the prefixes are compared
  <<IF IsCatchAll(m) THEN 0 ELSE 1,
    IF m.kind = "path" THEN 1 ELSE 0,
    Cardinality(m.headers), PathLength(m), Cardinality(m.params)>>

(* What the precedence rules look at, in their order.                      *)
Key(m) ==
  <<IF IsCatchAll(m) THEN 0 ELSE 1,
    IF m.kind = "path" THEN 1 ELSE 0,
    PathLength(m), Cardinality(m.headers), Cardinality(m.params)>>

Before(a, b) ==
  \E k \in 1..5 :
    /\ Key(a)[k] > Key(b)[k]
    /\ \A j \in 1..(k - 1) : Key(a)[j] = Key(b)[j]

InPrecedence(s) == \A i, j \in DOMAIN s : i < j => ~Before(s[j].match, s[i].match)

Arrangements(s) ==
  {[i \in DOMAIN s |-> s[p[i]]] :
     p \in {p \in [DOMAIN s -> DOMAIN s] : \A i, j \in DOMAIN s : i # j => p[i] # p[j]}}

SortedAnyhow(s) == {t \in Arrangements(s) : InPrecedence(t)}   \* mutant: ties in any order

Precedes(s, i, j) ==
  \/ Before(s[i].match, s[j].match)
  \/ ~Before(s[j].match, s[i].match) /\ i <= j

Place(s, i) == Cardinality({j \in DOMAIN s : Precedes(s, j, i)})

(* What sort.Slice may leave in s: ties keep their order in a short slice  *)
(* only.                                                                   *)
SortRoutes(s) ==
  IF Len(s) <= StableUpTo
  THEN {[n \in DOMAIN s |-> s[CHOOSE i \in DOMAIN s : Place(s, i) = n]]}
  ELSE SortedAnyhow(s)

----------------------------------------------------------------------------
(* How Envoy matches a request.                                            *)

PathMatches(m, path) ==
  CASE m.kind = "path" -> path = m.path
    [] m.kind = "prefix" ->
         /\ IsPrefix(m.path.words, path.words)
         /\ path.slash \/ Len(path.words) > Len(m.path.words)
    [] m.kind = "separated" -> IsPrefix(m.path.words, path.words)
    [] m.kind = "regex" -> path \in Regexes[m.path].paths

MatchesRequest(m, request) ==
  /\ PathMatches(m, request.path)
  /\ m.headers \subseteq request.headers
  /\ m.params \subseteq request.params

(* The entry that answers the request, if any does.                        *)
Answering(s, request) ==
  {i \in DOMAIN s :
     /\ MatchesRequest(s[i].match, request)
     /\ \A j \in 1..(i - 1) : ~MatchesRequest(s[j].match, request)}
=============================================================================
