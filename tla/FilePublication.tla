--------------------------- MODULE FilePublication ---------------------------
(***************************************************************************)
(* What the transfer of one file promises to whoever looks at the           *)
(* destination: a name changes at most once by the transfer, from absent    *)
(* (or, with consent, from something else) to a complete copy of a version  *)
(* the source really had, and a transfer is called completed only then.     *)
(* TransferItem implements this.                                           *)
(***************************************************************************)
CONSTANTS Names, Contents, NoContent

VARIABLES
  files,      \* name -> content, or NoContent
  offered,    \* the contents the source has had since the transfer opened it
  consent,    \* somebody agreed to lose what the destination holds
  published,
  outcome

vars == <<files, offered, consent, published, outcome>>

Init ==
  /\ files \in [Names -> Contents \cup {NoContent}]
  /\ offered \in SUBSET Contents
  /\ consent = FALSE
  /\ published = FALSE
  /\ outcome = "none"

\* The source changes, or the transfer (re)opens it.
Offer ==
  /\ offered' \in SUBSET Contents
  /\ offered \subseteq offered'
  /\ UNCHANGED <<files, consent, published, outcome>>

\* Somebody else writes or removes a destination.
Interfere(n) ==
  /\ \E c \in Contents \cup {NoContent} : files' = [files EXCEPT ![n] = c]
  /\ UNCHANGED <<offered, consent, published, outcome>>

Agree ==
  /\ consent' = TRUE
  /\ UNCHANGED <<files, offered, published, outcome>>

Publish(n) ==
  /\ ~published
  /\ outcome = "none"
  /\ files[n] = NoContent \/ consent
  /\ \E c \in offered : files' = [files EXCEPT ![n] = c]
  /\ published' = TRUE
  /\ UNCHANGED <<offered, consent, outcome>>

End ==
  /\ outcome = "none"
  /\ outcome' \in {"completed", "skipped", "failed"}
  /\ outcome' = "completed" => published
  /\ outcome' = "skipped" => ~published
  /\ UNCHANGED <<files, offered, consent, published>>

Next ==
  \/ Offer \/ Agree \/ End
  \/ \E n \in Names : Interfere(n) \/ Publish(n)

Spec == Init /\ [][Next]_vars
=============================================================================
