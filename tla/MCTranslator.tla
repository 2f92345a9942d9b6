---------------------------- MODULE MCTranslator ----------------------------
(***************************************************************************)
(* Gateways of two listeners, one of them varied against each of four, and *)
(* of one; at most two HTTPRoutes, which differ in what the translation    *)
(* looks at: parents, hostnames and rules.                                 *)
(***************************************************************************)
EXTENDS Translator, TLC

Host(wild, labels) == [wild |-> wild, labels |-> labels]
Apex == Host(FALSE, <<"example">>)
Wild == Host(TRUE, <<"example">>)
Foo == Host(FALSE, <<"foo", "example">>)
WildFoo == Host(TRUE, <<"foo", "example">>)
Hosts == {Apex, Wild, Foo, WildFoo}

Listener(name, p, protocol, hostname, from, kinds) ==
  [name |-> name, port |-> p, protocol |-> protocol, hostname |-> hostname, from |-> from,
   kinds |-> kinds, certificates |-> IF protocol = "HTTPS" THEN {"missing"} ELSE {}]

Varied ==
  {Listener("l1", 80, "HTTP", h, "All", {}) : h \in Hosts \cup {NoHostname}}
  \cup {Listener("l1", 80, "HTTP", NoHostname, f, k) :
          f \in {"Same", "Selector"}, k \in {{}, {"HTTPRoute"}, {"Other"}, {"HTTPRoute of the core group"}}}
  \cup {Listener("l1", 80, "TCP", NoHostname, "All", {})}

Second ==
  {Listener("l2", 80, "HTTP", Foo, "All", {}), Listener("l2", 80, "HTTPS", Wild, "Same", {}),
   Listener("l2", 443, "HTTPS", Foo, "All", {}), Listener("l2", 443, "TLS", NoHostname, "Same", {})}

SomeGateways == {<<l, m>> : l \in Varied, m \in Second} \cup {<<l>> : l \in Varied}

(* Backends: a Service whose target port differs and one with named target *)
(* ports only; destinations of each type, one with an unresolved Secret.   *)
Ns == <<"ns">>
Selected == {<<"other">>}
SomeServices == (<<Ns, <<"svc">>>> :> (80 :> 8080)) @@ (<<Ns, <<"named">>>> :> <<>>)
SomeDestinations ==
  (<<Ns, <<"fqdn">>>> :> [type |-> "FQDN", host |-> <<"api">>, secrets |-> (443 :> {"ca"})])
  @@ (<<Ns, <<"svc">>>> :> [type |-> "Service", host |-> <<"svc">>, secrets |-> (8080 :> {})])
  @@ (<<Ns, <<"synsvc", "svc">>>> :> [type |-> "FQDN", host |-> <<"api">>, secrets |-> (8080 :> {})])
  @@ (<<Ns, <<"locked">>>> :> [type |-> "FQDN", host |-> <<"api">>, secrets |-> (443 :> {"lost"})])
SomeEndpoints == <<Ns, <<"svc">>>> :> {"10.0.0.1"}

BackendRef(kind, name, p, weight) ==
  [kind |-> kind, ns |-> Ns, name |-> <<name>>, port |-> p, weight |-> weight]
Namesake == [kind |-> "Backend", ns |-> Ns, name |-> <<"synsvc", "svc">>, port |-> 8080, weight |-> 1]
Match(type, path, headers, params) ==
  [type |-> type, path |-> path, headers |-> headers, params |-> params]
Redirect == [type |-> "RequestRedirect"]
Filtered(matches, filters, refs) == [matches |-> matches, filters |-> filters, refs |-> refs]
Rule(matches, redirect, refs) == Filtered(matches, IF redirect THEN <<Redirect>> ELSE <<>>, refs)

Service == BackendRef("Service", "svc", 80, 1)
RuleSeqs ==
  {<<Rule(<<>>, FALSE, {Service})>>,
   <<Rule(<<>>, FALSE, {BackendRef("Backend", "fqdn", 443, 1), BackendRef("Service", "svc", 80, 0)})>>,
   <<Rule(<<>>, FALSE, {BackendRef("Backend", "svc", 8080, 1)})>>,
   <<Rule(<<Match("PathPrefix", Root, {}, {}), Match("Unsupported", Root, {}, {})>>, TRUE, {})>>,
   <<Rule(<<Match("Unsupported", Root, {}, {})>>, FALSE, {Service})>>,
   <<Rule(<<>>, FALSE, {BackendRef("Service", "svc", 8080, 1)}), Rule(<<>>, FALSE, {Service})>>,
   <<Rule(<<>>, FALSE, {BackendRef("Other", "svc", 80, 1)}), Rule(<<>>, TRUE, {})>>,
   <<Rule(<<>>, FALSE, {BackendRef("Service", "svc", NoPort, 1)})>>,
   <<Rule(<<>>, FALSE, {BackendRef("Backend", "locked", 443, 1)})>>,
   <<Rule(<<>>, FALSE, {Service, BackendRef("Service", "named", 80, 0)})>>,
   <<Rule(<<>>, FALSE, {Service, Namesake})>>}

Parent(ours, section, p) == [ours |-> ours, section |-> section, port |-> p]
ParentSeqs ==
  {<<Parent(TRUE, NoSection, NoPort)>>, <<Parent(TRUE, "l1", NoPort), Parent(TRUE, NoSection, 443)>>,
   <<Parent(FALSE, NoSection, NoPort)>>, <<Parent(FALSE, "l1", NoPort), Parent(TRUE, "l2", 80)>>}

Route(name, ns, parents, hostnames, rules) ==
  [name |-> name, ns |-> ns, parents |-> parents, hostnames |-> hostnames, rules |-> rules]
Plain == <<Rule(<<>>, FALSE, {Service})>>
Everywhere == <<Parent(TRUE, NoSection, NoPort)>>

FirstRoutes ==
  {Route("r1", Ns, Everywhere, hs, Plain) : hs \in SUBSET Hosts}
  \cup {Route("r1", n, ps, {Foo}, Plain) : n \in {Ns, <<"other">>}, ps \in ParentSeqs}
  \cup {Route("r1", Ns, Everywhere, {}, rs) : rs \in RuleSeqs}
SecondRoute ==
  Route("r2", <<"other">>, Everywhere, {Wild}, <<Rule(<<>>, FALSE, {BackendRef("Backend", "fqdn", 443, 1)})>>)

----------------------------------------------------------------------------
(* The order of routes: rules of one HTTPRoute and of two that share their *)
(* virtual host, and one listener, or two for the same route.              *)

Path(words, slash) == [words |-> words, slash |-> slash]
A == Path(<<"a">>, FALSE)
AB == Path(<<"a", "b">>, FALSE)
SomeRequests ==
  [path : {Root, A, Path(<<"a">>, TRUE), AB, Path(<<"c">>, FALSE)},
   headers : {{}, {"h"}}, params : {{}, {"p"}}]
SomeRegexes ==
  ("any" :> [length |-> 0, paths |-> {q.path : q \in SomeRequests}])
  @@ ("long" :> [length |-> 7, paths |-> {A, AB}])

FewMatches ==
  {Match("Unset", Root, {}, {}), Match("PathPrefix", A, {}, {}), Match("PathPrefix", A, {"h"}, {}),
   Match("Exact", A, {}, {}), Match("RegularExpression", "any", {}, {})}
SomeMatches ==
  FewMatches \cup
  {Match("PathPrefix", Root, {"h"}, {}), Match("PathPrefix", Path(<<"a">>, TRUE), {}, {"p"}),
   Match("PathPrefix", AB, {}, {}), Match("RegularExpression", "long", {}, {}),
   Match("Exact", AB, {}, {"p"})}

Rewrite(modifier, to) == [type |-> "URLRewrite", modifier |-> modifier, to |-> to]
Modifier == [type |-> "RequestHeaderModifier"]
FilterSeqs ==
  {<<>>, <<Modifier, Redirect, Modifier>>, <<Rewrite("ReplaceFullPath", A)>>, <<Rewrite("Unset", Root)>>,
   <<Rewrite("ReplacePrefixMatch", Root), Modifier>>, <<Rewrite("ReplacePrefixMatch", Path(<<>>, FALSE))>>}

RuleOf(matches, filters) == Filtered(matches, filters, {Service})
Shared(name, rules) == Route(name, Ns, Everywhere, {Foo}, rules)

TwoRules ==
  {{Shared("r1", <<RuleOf(<<m>>, fs), RuleOf(<<n>>, <<>>)>>)} :
     m \in SomeMatches, n \in SomeMatches, fs \in FilterSeqs}
TwoRoutes ==
  {{Shared("r1", <<RuleOf(<<m, n>>, <<>>)>>), Shared("r2", <<RuleOf(<<k>>, fs)>>)} :
     m \in FewMatches, n \in FewMatches, k \in FewMatches,
     fs \in {<<>>, <<Rewrite("ReplacePrefixMatch", Root)>>}}

OneListener == <<Listener("l1", 80, "HTTP", Foo, "All", {})>>
TwoListeners == <<Listener("l1", 80, "HTTP", Foo, "All", {}), Listener("l2", 80, "HTTP", Wild, "All", {})>>

----------------------------------------------------------------------------
SomeInputs ==
  (SomeGateways \X ({{r} : r \in FirstRoutes} \cup {{r, SecondRoute} : r \in FirstRoutes}))
  \cup ({OneListener} \X (TwoRules \cup TwoRoutes))
  \cup ({TwoListeners} \X {rs \in TwoRules : \A r \in rs : r.rules[1].filters = <<>>})
=============================================================================
