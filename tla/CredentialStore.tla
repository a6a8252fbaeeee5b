--------------------------- MODULE CredentialStore ---------------------------
(***************************************************************************)
(* The Linux credential store of the desktop host, for one reference: a    *)
(* copy in the session keyring of the kernel in front of the Secret        *)
(* Service.  A write goes to the copy first and is undone when the service *)
(* refuses; a read that misses the copy refills it.  No lock covers the    *)
(* two: a writer and a reader may be at work together, each step of them a *)
(* system call or a call over the session bus.                             *)
(***************************************************************************)
EXTENDS Naturals

CONSTANTS
  Versions,     \* values a secret takes
  MaxStoreFaults \* bound: calls of the kernel or the service that fail

VARIABLES
  copy,     \* value in the session keyring, 0 if none
  service,  \* value in the Secret Service, 0 if none
  writer,   \* the set or erase at work
  reader,   \* the get at work
  answered, \* history: what the last get returned, 0 before
  clouded,  \* history: the copy may differ from the service
  storeFaults

storeVars == <<copy, service, writer, reader, answered, clouded, storeFaults>>

ASSUME CredentialStoreAssumption == Versions \subseteq Nat \ {0} /\ MaxStoreFaults \in Nat

Values == Versions \union {0}
AtEase == [at |-> "ease"]

CredentialStoreInit ==
  /\ copy = 0 /\ service = 0 /\ writer = AtEase /\ reader = AtEase
  /\ answered = 0 /\ clouded = FALSE /\ storeFaults = 0

StoreFault == storeFaults < MaxStoreFaults /\ storeFaults' = storeFaults + 1

----------------------------------------------------------------------------
(* set *)

\* The former copy is remembered; a copy that cannot be read counts as none.
BeginSet(v) ==
  /\ writer = AtEase
  /\ \E previous \in {copy, 0} :
       /\ IF previous = copy THEN UNCHANGED storeFaults ELSE StoreFault
       /\ writer' = [at |-> "set", value |-> v, previous |-> previous]
  /\ UNCHANGED <<copy, service, reader, answered, clouded>>

\* linux_keyutils_set: a failure ends the call before the service is asked.
linux_keyutils_set ==
  /\ writer.at = "set"
  /\ \/ copy' = writer.value /\ writer' = [writer EXCEPT !.at = "store"] /\ UNCHANGED storeFaults
     \/ StoreFault /\ writer' = AtEase /\ UNCHANGED copy
  /\ UNCHANGED <<service, reader, answered, clouded>>

secret_password_store ==
  /\ writer.at = "store"
  /\ \/ service' = writer.value /\ writer' = AtEase /\ UNCHANGED storeFaults
     \/ StoreFault /\ writer' = [writer EXCEPT !.at = "restore"] /\ UNCHANGED service
  /\ UNCHANGED <<copy, reader, answered, clouded>>

\* Mutant of Restored: the copy keeps the value the service refused.
RestoredNothing(previous) == copy

\* restore_linux_keyutils: the former copy, or none.
Restored(previous) == previous

\* A restoration that fails is not reported.
restore_linux_keyutils ==
  /\ writer.at = "restore" /\ writer' = AtEase
  /\ \/ copy' = Restored(writer.previous) /\ UNCHANGED <<clouded, storeFaults>>
     \/ StoreFault /\ clouded' = TRUE /\ UNCHANGED copy
  /\ UNCHANGED <<service, reader, answered>>

----------------------------------------------------------------------------
(* erase *)

\* linux_keyutils_erase, whose failure is not reported either.
linux_keyutils_erase ==
  /\ writer = AtEase /\ writer' = [at |-> "clear"]
  /\ \/ copy' = 0 /\ UNCHANGED <<clouded, storeFaults>>
     \/ StoreFault /\ clouded' = TRUE /\ UNCHANGED copy
  /\ UNCHANGED <<service, reader, answered>>

secret_password_clear ==
  /\ writer.at = "clear" /\ writer' = AtEase
  /\ \/ service' = 0 /\ UNCHANGED storeFaults
     \/ StoreFault /\ UNCHANGED service
  /\ UNCHANGED <<copy, reader, answered, clouded>>

----------------------------------------------------------------------------
(* get *)

\* The copy answers if it can be read.
linux_keyutils_get ==
  /\ reader = AtEase
  /\ \/ copy # 0 /\ answered' = copy /\ UNCHANGED <<reader, storeFaults>>
     \/ copy = 0 /\ reader' = [at |-> "lookup"] /\ UNCHANGED <<answered, storeFaults>>
     \/ copy # 0 /\ StoreFault /\ reader' = [at |-> "lookup"] /\ UNCHANGED answered
  /\ UNCHANGED <<copy, service, writer, clouded>>

secret_password_lookup ==
  /\ reader.at = "lookup"
  /\ reader' = IF service = 0 THEN AtEase ELSE [at |-> "refill", value |-> service]
  /\ UNCHANGED <<copy, service, writer, answered, clouded, storeFaults>>

\* A write has come between the lookup and the refill, or is between its own two steps.
Overtaken == reader.value # service \/ writer.at \in {"store", "clear"}

Refill ==
  /\ reader.at = "refill" /\ reader' = AtEase
  /\ \/ /\ copy' = reader.value /\ answered' = reader.value
        /\ clouded' = (clouded \/ Overtaken) /\ UNCHANGED storeFaults
     \/ StoreFault /\ UNCHANGED <<copy, answered, clouded>>
  /\ UNCHANGED <<service, writer>>

\* The user's session ends; the kernel's copy goes, the service keeps its own.
SessionEnds ==
  /\ copy' = 0 /\ writer' = AtEase /\ reader' = AtEase /\ clouded' = FALSE
  /\ UNCHANGED <<service, answered, storeFaults>>

CredentialStoreNext ==
  \/ \E v \in Versions : BeginSet(v)
  \/ linux_keyutils_set \/ secret_password_store \/ restore_linux_keyutils
  \/ linux_keyutils_erase \/ secret_password_clear
  \/ linux_keyutils_get \/ secret_password_lookup \/ Refill
  \/ SessionEnds

CredentialStoreSpec == CredentialStoreInit /\ [][CredentialStoreNext]_storeVars

----------------------------------------------------------------------------

CredentialStoreTypeOK == copy \in Values /\ service \in Values /\ answered \in Values

\* With no write under way the copy a read trusts is the value of the service, also after a
\* write the service refused (restore_linux_keyutils) and beside a reader.  What may cloud it
\* until the session ends: a refill that a write overtook, and an undo the kernel refused.
CopyIsTruthful == writer = AtEase /\ ~clouded => copy \in {0, service}
=============================================================================
