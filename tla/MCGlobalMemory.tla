---------------------------- MODULE MCGlobalMemory ----------------------------
(***************************************************************************)
(* Two nodes with a hart each; n1 owns the words a, b and e, n2 owns c.    *)
(* A program either moves objects of several words, which nothing keeps    *)
(* from being torn, or shares a word that is only used atomically.         *)
(***************************************************************************)
EXTENDS GlobalMemory, TLC

CONSTANTS n1, n2, h1, h2, a, b, c, e

HartsOn == (h1 :> n1) @@ (h2 :> n2)
WordsOn == (a :> n1) @@ (b :> n1) @@ (c :> n2) @@ (e :> n1)

\* An object of two words on n1, words on either node, and one too large to send.
Objects == {<<a, b>>, <<a>>, <<e>>, <<c>>, <<a, b, e>>}

VARIABLE program

Uses(op) == IF program = "plain" THEN op.kind \in PlainKind
            ELSE op.kind \in AtomicKind /\ op.dst = <<a>>

MCInit == Init /\ program \in {"plain", "atomic"}

MCNext ==
  /\ Next
  /\ UNCHANGED program
  /\ \A h \in Hart : hart[h].state = "user" /\ hart'[h].state # "user" => Uses(hart'[h].x.op)

MCSpec ==
  /\ MCInit /\ [][MCNext]_<<vars, program>>
  /\ \A h \in Hart : WF_vars(HartStep(h)) /\ WF_vars(HandlerFor(h))
=============================================================================
