---------------------------- MODULE MCIndexStore ----------------------------
(* A deploy; invokes with variables and without; a deploy of unknown class *)
(* from a large ring, its invoke, and a normal transaction with two        *)
(* payloads of one asset; a block that could not be parsed.                *)
EXTENDS IndexStore

Install(s, a, code, v) == [kind |-> "install", scid |-> s, sender |-> a, code |-> code, vars |-> v]
Invoke(s, a, v) == [kind |-> "invoke", scid |-> s, sender |-> a, vars |-> v]
Payload(s, ring) == [scid |-> s, ring |-> ring]
Normal(ps) == [kind |-> "normal", payloads |-> ps]
Block(txs) == [txs |-> txs, parsed |-> TRUE]

MCBlocks ==
  {Block(<<Install("s1", "a1", "TELA-INDEX-1", 1)>>),
   Block(<<Invoke("s1", "a1", 1), Invoke("s1", "a2", 0)>>),
   Block(<<Install("s2", "", "other", 1), Invoke("s2", "a1", 2),
           Normal(<<Payload("s1", {"a2"}), Payload("zero", {"a1"}), Payload("s1", {"a2"})>>),
           [kind |-> "burn"], [kind |-> "registration"]>>),
   [txs |-> <<>>, parsed |-> FALSE]}
=============================================================================
