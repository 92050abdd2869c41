----------------------------- MODULE MCHomaSend -----------------------------
(***************************************************************************)
(* A small instance of HomaSend for TLC: two threads that send on a socket *)
(* whose memory fits one message.                                          *)
(***************************************************************************)
EXTENDS HomaSend

WaitingSenders == {[block |-> {"a", "b"}, sends |-> [a |-> 2, b |-> 1], shutdown |-> FALSE,
                    connect |-> FALSE, poll |-> FALSE, signals |-> FALSE, user |-> TRUE,
                    receiver |-> TRUE]}
=============================================================================
