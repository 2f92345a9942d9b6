----------------------------- MODULE HTTPRoutes -----------------------------
(***************************************************************************)
(* From the rules of an HTTPRoute to Envoy routes, in the order in which   *)
(* they are appended (translateHTTPRouteToEnvoyRoutes and its helpers,     *)
(* pkg/translator/envoy/httproute.go).                                     *)
(*                                                                         *)
(* What a redirect and a header modifier say is left out.  A match that    *)
(* the translation refuses is of type "Unsupported", and the empty path    *)
(* without a slash is the empty string.                                    *)
(***************************************************************************)
EXTENDS Backends, RouteOrder

CONSTANT NoRewrite

----------------------------------------------------------------------------
(* Matches.  A rule without any has one that matches everything.           *)

MatchesOf(rule) ==
  IF rule.matches = <<>>
  THEN <<[type |-> "Unset", path |-> Root, headers |-> {}, params |-> {}]>>
  ELSE rule.matches

TranslateMatch(match) ==
  LET Envoy(kind, path) ==
        [kind |-> kind, path |-> path, headers |-> match.headers, params |-> match.params]
      rooted == match.type = "PathPrefix" /\ match.path = Root
  IN  CASE match.type = "Unset" \/ rooted -> Envoy("prefix", Root)
        [] match.type = "PathPrefix" /\ ~rooted ->
             Envoy("separated", [match.path EXCEPT !.slash = FALSE])
        [] match.type = "Exact" -> Envoy("path", match.path)
        [] match.type = "RegularExpression" -> Envoy("regex", match.path)

----------------------------------------------------------------------------
(* Filters.  The first redirect ends the loop over them.                   *)

Redirects(rule) == {i \in DOMAIN rule.filters : rule.filters[i].type = "RequestRedirect"}

LastProcessed(rule) == Min(Redirects(rule) \cup {Len(rule.filters)})

HeaderModifiers(rule) ==
  SelectSeq(SubSeq(rule.filters, 1, LastProcessed(rule)),
            LAMBDA f : f.type \in {"RequestHeaderModifier", "ResponseHeaderModifier"})

(* The last URLRewrite counts, and one without a path rewrites nothing.    *)
URLRewrite(rule) ==
  LET rewrites == {i \in DOMAIN rule.filters :
                     i <= LastProcessed(rule) /\ rule.filters[i].type = "URLRewrite"}
      last == rule.filters[Max(rewrites)]
  IN  IF rewrites = {} \/ last.modifier = "Unset" THEN NoRewrite ELSE last

MatchUnchanged(m, rewrite) == m     \* mutant: the separator is left to Envoy

(* With a new prefix, the separator is matched as part of the old one.     *)
MatchWithRewrite(m, rewrite) ==
  IF /\ rewrite # NoRewrite
     /\ rewrite.modifier = "ReplacePrefixMatch" /\ Letters(rewrite.to) > 0
     /\ m.kind = "separated"
  THEN [m EXCEPT !.kind = "prefix", !.path.slash = TRUE]
  ELSE m

----------------------------------------------------------------------------
(* A rule gives one Envoy route for each of its matches: a branch is the   *)
(* rule's number and the match's.                                          *)

Branches(route) ==
  UNION {{i} \X DOMAIN MatchesOf(route.rules[i]) : i \in DOMAIN route.rules}

Earlier(b, c) == b[1] < c[1] \/ (b[1] = c[1] /\ b[2] < c[2])

Source(route, branch) == MatchesOf(route.rules[branch[1]])[branch[2]]

Translatable(route, branch) == Source(route, branch).type # "Unsupported"

Entry(route, branch) ==
  LET rule == route.rules[branch[1]]
      match == TranslateMatch(Source(route, branch))
      Answer(type, m, to, rewrite) ==
        [route |-> route, branch |-> branch, type |-> type, match |-> m, clusters |-> to,
         rewrite |-> rewrite, modifiers |-> HeaderModifiers(rule)]
  IN  CASE Redirects(rule) # {} -> Answer("redirect", match, {}, NoRewrite)
        [] Redirects(rule) = {} /\ ActionFails(rule.refs) -> Answer("500", match, {}, NoRewrite)
        [] OTHER -> Answer("forward", MatchWithRewrite(match, URLRewrite(rule)),
                           WeightedClusters(rule.refs), URLRewrite(rule))

Kept(route) == {b \in Branches(route) : Translatable(route, b)}

Position(route, b) == Cardinality({c \in Kept(route) : c = b \/ Earlier(c, b)})

Unsorted(route) ==
  [n \in 1..Cardinality(Kept(route)) |->
     Entry(route, CHOOSE b \in Kept(route) : Position(route, b) = n)]

Entries(route) == ToSet(Unsorted(route))

BackendsOf(route) ==
  UNION {ValidBackends(route.rules[e.branch[1]].refs) : e \in {e \in Entries(route) : e.type = "forward"}}

BranchFails(route, b) == ~Translatable(route, b) \/ Entry(route, b).type = "500"

ResolvedLast(route) ==          \* mutant: each branch overwrites the condition
  \A b \in Branches(route) : (\A c \in Branches(route) : ~Earlier(b, c)) => ~BranchFails(route, b)

Resolved(route) == \A b \in Branches(route) : ~BranchFails(route, b)

----------------------------------------------------------------------------
(* What the API server admits of an HTTPRoute's rules: a path begins with  *)
(* a slash, and one that a prefix is replaced with may be empty.           *)

IsSeq(s) == s \in Seq(ToSet(s))

IsHTTPMatch(match) ==
  /\ match.type \in {"Unset", "PathPrefix", "Exact", "RegularExpression", "Unsupported"}
  /\ IF match.type = "RegularExpression"
     THEN match.path \in DOMAIN Regexes
     ELSE match.path \in Paths /\ (match.path.words = <<>> => match.path.slash)
  /\ IsFiniteSet(match.headers) /\ IsFiniteSet(match.params)

IsHTTPRule(rule) ==
  /\ IsSeq(rule.matches) /\ \A i \in DOMAIN rule.matches : IsHTTPMatch(rule.matches[i])
  /\ IsSeq(rule.filters)
  /\ \A i \in DOMAIN rule.filters :
       LET f == rule.filters[i]
       IN  f.type = "URLRewrite" /\ f.modifier # "Unset" => f.to \in Paths

IsHTTPRoute(route) ==
  IsSeq(route.rules) /\ \A i \in DOMAIN route.rules : IsHTTPRule(route.rules[i])
=============================================================================
