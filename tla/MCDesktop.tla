------------------------------ MODULE MCDesktop ------------------------------
(***************************************************************************)
(* The components of the desktop host that share no state, one per         *)
(* behaviour: `part` names the component that runs, and the others stay    *)
(* where they started.  Every component is explored as by itself.          *)
(***************************************************************************)
EXTENDS Secrets, CredentialStore, Terminal, OAuth, LocalFiles, HostTrust, GuardedReplace

VARIABLE part
Parts == {"secrets", "store", "terminal", "oauth", "paths", "drag", "trust", "replace"}

DesktopInit ==
  /\ part \in Parts
  /\ SecretsInit /\ CredentialStoreInit /\ TerminalInit /\ OAuthInit /\ LocalFilesInit
  /\ HostTrustInit /\ GuardedReplaceInit
  \* One start is enough for a component that never moves.
  /\ part # "oauth" => clients = {}
  /\ part \notin {"paths", "drag"} => now = [p \in Paths |-> "file"]

DesktopNext ==
  /\ \/ part = "secrets" /\ SecretsNext
     \/ part = "store" /\ CredentialStoreNext
     \/ part = "terminal" /\ TerminalNext
     \/ part = "oauth" /\ OAuthNext
     \/ part = "paths" /\ LocalPathsNext
     \/ part = "drag" /\ RemoteDragNext
     \/ part = "trust" /\ HostTrustNext
     \/ part = "replace" /\ GuardedReplaceNext
  /\ part # "secrets" => UNCHANGED secretVars
  /\ part # "store" => UNCHANGED storeVars
  /\ part # "terminal" => UNCHANGED terminalVars
  /\ part # "oauth" => UNCHANGED oauthVars
  /\ part \notin {"paths", "drag"} => UNCHANGED localVars
  /\ part # "trust" => UNCHANGED trustVars
  /\ part # "replace" => UNCHANGED replaceVars
  /\ UNCHANGED part

desktopVars == <<part, secretVars, storeVars, terminalVars, oauthVars, localVars, trustVars,
                 replaceVars>>

DesktopSpec == DesktopInit /\ [][DesktopNext]_desktopVars

\* Secrets are neither lost nor left lying about: a row finds the secret it names, a secret no
\* row names is queued for erasure, and what a read takes from the kernel's copy is what the
\* credential service holds.
SecretsAreKept == RowsHaveSecrets /\ LostSecretsAreQueued /\ CopyIsTruthful
=============================================================================
