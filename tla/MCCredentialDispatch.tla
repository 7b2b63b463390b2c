------------------------ MODULE MCCredentialDispatch ------------------------
(* Two turns race over one key of p1; a single turn rotates over two of    *)
(* them.  p2 is the provider of the environment, which the tenant has no   *)
(* key for: the route of a tenant that deleted all its keys.  A voice      *)
(* request chooses between a key of p1 and one of p2, which both           *)
(* transcribe, and runs beside a turn that may condemn its only key.       *)
EXTENDS Transcription

CONSTANTS p1, p2, m1, m2, m3, s1, s2, a, b, d, k1, k2, v1

MCProviderOf == (a :> p1) @@ (b :> p1) @@ (d :> p2)
MCPriority == (a :> 0) @@ (b :> 1) @@ (d :> 1)
MCSttVendors == (p1 :> [kind |-> "Multipart", model |-> s1, audioOnly |-> FALSE]) @@
                (p2 :> [kind |-> "ChatAudio", model |-> s2, audioOnly |-> TRUE])
MCCatalog == (p1 :> <<m1>>) @@ (p2 :> <<m3>>)
MCRoutable == (p1 :> {m1}) @@ (p2 :> {m3})
MCFallback == (p1 :> <<>>) @@ (p2 :> <<m2>>)
MCDefault == <<p2, m3>>
Says(status, signals, hint) == [status |-> status, signals |-> signals, hint |-> hint]
MCAnswer == {
    Says(401, {}, NoHint), Says(429, {"transient"}, 0), Says(429, {}, 9),
    Says(429, {"billing"}, NoHint), Says(500, {}, NoHint), Says(400, {"context"}, NoHint),
    Says(403, {"terminal"}, NoHint), Says(400, {"policy"}, NoHint) }
MCScopes == {
    [keys |-> <<a>>, tasks |-> {k1, k2}, voices |-> {}, answers |-> MCAnswer,
     picks |-> Link, ticks |-> 1],
    [keys |-> <<a, b>>, tasks |-> {k1}, voices |-> {}, answers |-> MCAnswer,
     picks |-> Link, ticks |-> 1],
    [keys |-> <<a, d>>, tasks |-> {}, voices |-> {v1}, answers |-> {},
     picks |-> {}, ticks |-> 0],
    [keys |-> <<a>>, tasks |-> {k1}, voices |-> {v1}, picks |-> {}, ticks |-> 0,
     answers |-> {Says(403, {"terminal"}, NoHint), Says(429, {"billing"}, NoHint)}] }
=============================================================================
