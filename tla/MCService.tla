----------------------------- MODULE MCService -----------------------------
(***************************************************************************)
(* The service on a few requests that share a session, an idempotency key, *)
(* or both.                                                                *)
(***************************************************************************)
EXTENDS Service, MCGate

MCTwoCalls == {c1, c2}

By(principal, key, r) ==
  [f \in DOMAIN r \cup {"principal", "key"} |->
     CASE f = "principal" -> principal [] f = "key" -> key [] OTHER -> r[f]]

Reviewed == Request("s1", "write", "/w1/src", "none")
Permitted == Request("s1", "read", "/w1/src", "none")

\* A call the classifier reviews, under a key; another call and another principal
\* under the same key; without a key, a denial and an unknown profile.
MCServiceRequests ==
  {By("p1", "k1", Reviewed), By("p1", "k1", Permitted), By("p2", "k1", Reviewed),
   By("p1", "none", Request("s1", "push", "/w1/src", "none")),
   By("p1", "none", [Permitted EXCEPT !.profile = "missing"])}
=============================================================================
