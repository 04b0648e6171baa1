----------------------------- MODULE MCEventBus -----------------------------
(* The event bus with filters that take everything, or a contract's        *)
(* confirmed installs.                                                     *)
EXTENDS EventBus

All      == [types |-> {}, scid |-> "", speculative |-> TRUE]
Installs == [types |-> {"install"}, scid |-> "a", speculative |-> FALSE]

MCKinds == {[type |-> "install", scid |-> "a", speculative |-> FALSE],
            [type |-> "invoke", scid |-> "a", speculative |-> TRUE]}
MCConfirmed == {Installs}
MCAll       == {All}
MCOneKind   == {[type |-> "install", scid |-> "a", speculative |-> FALSE]}
=============================================================================
