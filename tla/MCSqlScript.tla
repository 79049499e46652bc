---------------------------- MODULE MCSqlScript ----------------------------
(* Instances of SqlScript for TLC: two accounts, from which README's fund  *)
(* transfer and its variants move money.                                   *)
EXTENDS SqlScript, TLC

CONSTANTS a, b,       \* two accounts
          r1, r2, r3

TwoRows == {a, b}

OneEach == a :> 1 @@ b :> 0

Query(w) == [do |-> "query", row |-> w]
Add(w, n) == [do |-> "add", row |-> w, amount |-> n]
Require(w, n) == [do |-> "require", row |-> w, least |-> n]

Call(kind, async, catches, body) ==
  [kind |-> kind, async |-> async, catches |-> catches, body |-> body]

Transfer(from, to) == <<Query(from), Require(from, 1), Add(from, -1), Add(to, 1)>>

ThreeRequests == {r1, r2, r3}

\* Who asks what: a script with a balance check; a script that swallows its errors, one
\* that throws, or a batch; and a short statement between them.
Roles ==
  r1 :> {Call("script", FALSE, FALSE, Transfer(a, b))}
    @@ r2 :> {Call("script", FALSE, TRUE, <<Add(b, -1), Add(a, 1)>>),
              Call("script", FALSE, FALSE, <<Add(b, -1), [do |-> "throw"]>>),
              Call("batch", FALSE, FALSE, <<Add(b, -1), Add(a, 1)>>)}
    @@ r3 :> {Call("execute", FALSE, FALSE, <<Add(a, 2)>>),
              Call("batch", FALSE, FALSE, <<>>)}

OneRequest == {r1}

AsyncScripts ==
  r1 :> {Call("script", TRUE, FALSE, <<Add(a, -1), [do |-> "throw"], Add(b, 1)>>),
         Call("script", TRUE, FALSE, <<Add(a, -1), [do |-> "await"], Add(b, 1)>>)}
=============================================================================
