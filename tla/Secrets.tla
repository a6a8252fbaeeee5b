------------------------------- MODULE Secrets -------------------------------
(***************************************************************************)
(* Secrets in the operating system's credential store and the rows of the  *)
(* database that name them: SSH identities of servers, the network proxy,  *)
(* headers and OAuth material of an MCP server.  The two stores share no   *)
(* transaction.  A command stages new secrets, saves the row and only then *)
(* erases what the row named before; an erase that fails is queued in the  *)
(* database and tried again when the program starts.  Commands run one at  *)
(* a time; the refresh of a token by a running MCP session runs beside.    *)
(***************************************************************************)
EXTENDS Naturals, FiniteSets

CONSTANTS
  LoginServers,  \* server ids
  MaxSecrets,    \* bound: secrets ever staged
  MaxKeys,       \* bound: commands that end in a failure or a crash
  MaxHeaders     \* bound: headers of an MCP row

References == 1..MaxSecrets

ASSUME SecretsAssumption == {MaxSecrets, MaxKeys, MaxHeaders} \subseteq Nat

VARIABLES
  keyring,    \* references the credential store holds a secret for
  stagedUpTo, \* references given out
  identities, \* identities table: an identity is the set of references it names
  login,      \* identity of each saved server
  proxy,      \* reference of the network proxy, if any
  headerRow,     \* the MCP server: saved or not, and the references it names
  queue,      \* credential_cleanup_queue
  command,    \* the command on the lane
  token,      \* references of the token the running MCP session was started with
  refreshing, \* references whose token a session is refreshing
  leaked,     \* history: secrets given up on a path that does not queue them
  failures    \* failures and crashes so far

databaseVars == <<identities, login, proxy, headerRow, queue>>
secretVars == <<keyring, stagedUpTo, databaseVars, command, token, refreshing, leaked, failures>>

NoRow == [saved |-> FALSE, headers |-> {}, client |-> {}, key |-> {}, token |-> {}]
RowRefs(row) == row.headers \union row.client \union row.key \union row.token
LaneResting == [op |-> "none"]

\* Every reference some row of the database names.
Named == (UNION (identities \union {login[s] : s \in DOMAIN login})) \union proxy \union RowRefs(headerRow)

SecretsInit ==
  /\ keyring = {} /\ stagedUpTo = 0
  /\ identities = {} /\ login = [s \in {} |-> {}] /\ proxy = {} /\ headerRow = NoRow /\ queue = {}
  /\ command = LaneResting /\ token = {} /\ refreshing = {} /\ leaked = {} /\ failures = 0

Fails == failures < MaxKeys /\ failures' = failures + 1

----------------------------------------------------------------------------
(* Staging: credentials_->set under an account never used before *)

Fresh == stagedUpTo + 1
Stage == /\ Fresh \in References /\ stagedUpTo' = Fresh
         /\ keyring' = keyring \union {Fresh}

\* What is left to clean: clean_credential_references works through it.
Clean(refs) == command' = IF refs = {} THEN LaneResting ELSE [op |-> "clean", todo |-> refs]

----------------------------------------------------------------------------
(* server_command *)

\* How many secrets an authentication method brings: a password or a key, and a passphrase.
SecretsOf(method) ==
  CASE method = "password" -> {1}
    [] method \in {"privateKey", "certificate"} -> {1, 2}
    [] method = "agent" -> {0}

\* server_add and server_update with a new identity; the row keeps its own until it is saved.
BeginServer(s, method, secrets) ==
  /\ command = LaneResting /\ secrets \in SecretsOf(method)
  /\ command' = [op |-> "server", server |-> s, left |-> secrets, staged |-> {}]
  /\ UNCHANGED <<keyring, stagedUpTo, databaseVars, token, refreshing, leaked, failures>>

StageLogin ==
  /\ command.op = "server" /\ command.left > 0
  /\ \/ /\ Stage
        /\ command' = [command EXCEPT !.left = @ - 1, !.staged = @ \union {Fresh}]
        /\ UNCHANGED failures
     \/ /\ Fails /\ Clean(command.staged)
        /\ UNCHANGED <<keyring, stagedUpTo>>
  /\ UNCHANGED <<databaseVars, token, refreshing, leaked>>

\* Servers whose row names the identity, other than one.
SharedBy(identity, s) == {o \in DOMAIN login \ {s} : login[o] = identity}

\* Mutant of delete_identity_if_unshared: an identity other servers use goes with this one.
delete_identity_if_shared(identity, s) ==
  /\ identities' = identities \ {identity}
  /\ Clean(identity)

\* delete_identity_if_unshared: an identity some other server uses stays as it is.
delete_identity_if_unshared(identity, s) ==
  IF SharedBy(identity, s) # {}
  THEN command' = LaneResting /\ UNCHANGED identities
  ELSE /\ identities' = identities \ {identity}
       /\ Clean(identity)

\* The identity a server leaves behind, to be reclaimed in a transaction of its own.
Leave(s, identity) ==
  command' = IF identity = {} THEN LaneResting ELSE [op |-> "reclaim", server |-> s, left |-> identity]

LoginOf(s) == IF s \in DOMAIN login THEN login[s] ELSE {}
Saved(s, identity) == [o \in DOMAIN login \union {s} |-> IF o = s THEN identity ELSE login[o]]

\* update_server (add_server): the new identity and the row in one transaction.
update_server(s, identity) ==
  /\ identities' = identities \union {identity}
  /\ login' = Saved(s, identity)

save_network_proxy_config(refs) == proxy' = refs

upsert_mcp_server(row) == headerRow' = row

SaveServer ==
  /\ command.op = "server" /\ command.left = 0
  /\ \/ /\ update_server(command.server, command.staged)
        /\ Leave(command.server, LoginOf(command.server))
        /\ UNCHANGED failures
     \/ /\ Fails /\ Clean(command.staged)
        /\ UNCHANGED <<identities, login>>
  /\ UNCHANGED <<keyring, stagedUpTo, proxy, headerRow, queue, token, refreshing, leaked>>

\* The same commands with an identity that exists already (get_identity).
ReuseIdentity(s, identity) ==
  /\ command = LaneResting /\ identity \in identities /\ LoginOf(s) # identity
  /\ login' = Saved(s, identity)
  /\ Leave(s, LoginOf(s))
  /\ UNCHANGED <<keyring, stagedUpTo, identities, proxy, headerRow, queue, token, refreshing,
                 leaked, failures>>

server_delete(s) ==
  /\ command = LaneResting /\ s \in DOMAIN login
  /\ login' = [o \in DOMAIN login \ {s} |-> login[o]]
  /\ Leave(s, login[s])
  /\ UNCHANGED <<keyring, stagedUpTo, identities, proxy, headerRow, queue, token, refreshing,
                 leaked, failures>>

\* The row was saved or deleted; now its former identity, unless the database fails.
Reclaim ==
  /\ command.op = "reclaim"
  /\ \/ delete_identity_if_unshared(command.left, command.server) /\ UNCHANGED failures
     \/ Fails /\ command' = LaneResting /\ UNCHANGED identities
  /\ UNCHANGED <<keyring, stagedUpTo, login, proxy, headerRow, queue, token, refreshing, leaked>>

----------------------------------------------------------------------------
(* network_proxy_command *)

\* A new credential is staged, or the stored one is cleared.
BeginProxy(clear) ==
  /\ command = LaneResting
  /\ IF clear THEN proxy # {} /\ UNCHANGED <<keyring, stagedUpTo>> ELSE Stage
  /\ command' = [op |-> "proxy", staged |-> IF clear THEN {} ELSE {Fresh}]
  /\ UNCHANGED <<databaseVars, token, refreshing, leaked, failures>>

\* save_network_proxy_config, then the former credential.
SaveProxy ==
  /\ command.op = "proxy"
  /\ \/ save_network_proxy_config(command.staged) /\ Clean(proxy) /\ UNCHANGED failures
     \/ Fails /\ Clean(command.staged) /\ UNCHANGED proxy
  /\ UNCHANGED <<keyring, stagedUpTo, identities, login, headerRow, queue, token, refreshing, leaked>>

----------------------------------------------------------------------------
(* mcp_command *)

\* mcp_server_save: the headers kept, the number of new ones, and the OAuth settings: absent,
\* the same identity (which keeps key and token) or another; the client secret may be carried
\* over, replaced or dropped.
BeginMcp(kept, headers, oauth, client) ==
  /\ command = LaneResting /\ kept \subseteq headerRow.headers
  /\ Cardinality(kept) + headers <= MaxHeaders
  /\ oauth = "none" => client = "dropped"
  /\ client = "carried" => headerRow.client # {}
  /\ command' = [op |-> "mcp", left |-> headers, client |-> client = "new", staged |-> {},
                 row |-> [saved |-> TRUE, headers |-> kept,
                          client |-> IF client = "carried" THEN headerRow.client ELSE {},
                          key |-> IF oauth = "same" THEN headerRow.key ELSE {},
                          token |-> IF oauth = "same" THEN headerRow.token ELSE {}]]
  /\ UNCHANGED <<keyring, stagedUpTo, databaseVars, token, refreshing, leaked, failures>>

\* A header that cannot be stored, or is invalid, ends the command and leaves what the headers
\* before it staged.
StageHeader ==
  /\ command.op = "mcp" /\ command.left > 0
  /\ \/ /\ Stage
        /\ command' = [command EXCEPT !.left = @ - 1, !.staged = @ \union {Fresh},
                                      !.row.headers = @ \union {Fresh}]
        /\ UNCHANGED <<failures, leaked>>
     \/ /\ Fails /\ command' = LaneResting /\ leaked' = leaked \union command.staged
        /\ UNCHANGED <<keyring, stagedUpTo>>
  /\ UNCHANGED <<databaseVars, token, refreshing>>

\* resolve_oauth_config: an invalid setting or a client secret that cannot be stored cleans.
resolve_oauth_config ==
  /\ command.op = "mcp" /\ command.left = 0 /\ command.client
  /\ \/ /\ Stage
        /\ command' = [command EXCEPT !.client = FALSE, !.staged = @ \union {Fresh},
                                      !.row.client = {Fresh}]
        /\ UNCHANGED failures
     \/ /\ Fails /\ Clean(command.staged)
        /\ UNCHANGED <<keyring, stagedUpTo>>
  /\ UNCHANGED <<databaseVars, token, refreshing, leaked>>

\* What the saved row does not name any more.
Retired(row) == RowRefs(headerRow) \ RowRefs(row)

\* upsert_mcp_server, then what the saved row retired.
SaveMcp ==
  /\ command.op = "mcp" /\ command.left = 0 /\ ~command.client
  /\ \/ /\ upsert_mcp_server(command.row) /\ Clean(Retired(command.row)) /\ UNCHANGED failures
     \/ /\ Fails /\ Clean(command.staged) /\ UNCHANGED headerRow
  /\ UNCHANGED <<keyring, stagedUpTo, identities, login, proxy, queue, token, refreshing, leaked>>

\* delete_mcp_server; a session of the server goes on.
delete_mcp_server ==
  /\ command = LaneResting /\ headerRow.saved
  /\ headerRow' = NoRow /\ Clean(RowRefs(headerRow))
  /\ UNCHANGED <<keyring, stagedUpTo, identities, login, proxy, queue, token, refreshing,
                 leaked, failures>>

----------------------------------------------------------------------------
(* oauth_connect *)

\* A key for proofs of possession is stored before the flow, if the settings ask for one.
BeginConnect(dpop) ==
  /\ command = LaneResting /\ headerRow.saved
  /\ IF dpop /\ headerRow.key = {}
     THEN Stage /\ command' = [op |-> "key", staged |-> {Fresh}]
     ELSE command' = [op |-> "flow"] /\ UNCHANGED <<keyring, stagedUpTo>>
  /\ UNCHANGED <<databaseVars, token, refreshing, leaked, failures>>

persist_oauth ==
  /\ command.op = "key"
  /\ \/ /\ upsert_mcp_server([headerRow EXCEPT !.key = command.staged]) /\ command' = [op |-> "flow"]
        /\ UNCHANGED <<leaked, failures>>
     \/ /\ Fails /\ leaked' = leaked \union command.staged /\ command' = LaneResting
        /\ UNCHANGED headerRow
  /\ UNCHANGED <<keyring, stagedUpTo, identities, login, proxy, queue, token, refreshing>>

\* The flow fails, or the token it obtained is stored under a new account.
FlowEnds(obtained) ==
  /\ command.op = "flow"
  /\ IF obtained THEN Stage /\ command' = [op |-> "bundle", staged |-> {Fresh}]
     ELSE command' = LaneResting /\ UNCHANGED <<keyring, stagedUpTo>>
  /\ UNCHANGED <<databaseVars, token, refreshing, leaked, failures>>

\* An erase of the flow's own; one that fails is not queued.
EraseOrForget(refs) ==
  \/ keyring' = keyring \ refs /\ UNCHANGED leaked
  \/ leaked' = leaked \union refs /\ UNCHANGED keyring

\* store_connected_bundle: the row names the new token before the former one is erased; then
\* the session that works with the former one is stopped.
store_connected_bundle ==
  /\ command.op = "bundle"
  /\ \/ /\ upsert_mcp_server([headerRow EXCEPT !.token = command.staged])
        /\ EraseOrForget(headerRow.token)
        /\ token' = {} /\ UNCHANGED failures
     \/ /\ Fails /\ EraseOrForget(command.staged) /\ UNCHANGED <<headerRow, token>>
  /\ command' = LaneResting
  /\ UNCHANGED <<stagedUpTo, identities, login, proxy, queue, refreshing>>

----------------------------------------------------------------------------
(* clean_credential_references, one reference *)

\* Mutant of AfterFailedErase: a secret that could not be erased is dropped.
AfterFailedEraseDrop(ref) == UNCHANGED <<queue, leaked, failures>>

\* queue_credential_cleanup, which may fail too.
AfterFailedErase(ref) ==
  \/ queue' = queue \union {ref} /\ UNCHANGED <<leaked, failures>>
  \/ Fails /\ leaked' = leaked \union {ref} /\ UNCHANGED queue

clean_credential_reference(ref) ==
  /\ command.op = "clean" /\ ref \in command.todo
  /\ Clean(command.todo \ {ref})
  /\ \/ /\ keyring' = keyring \ {ref} /\ queue' = queue \ {ref}
        /\ UNCHANGED <<leaked, failures>>
     \/ AfterFailedErase(ref) /\ UNCHANGED keyring
  /\ UNCHANGED <<stagedUpTo, identities, login, proxy, headerRow, token, refreshing>>

----------------------------------------------------------------------------
(* A running MCP session and its token *)

\* A session is started from the row as it is.
StartSession ==
  /\ headerRow.token # {} /\ token = {}
  /\ token' = headerRow.token
  /\ UNCHANGED <<keyring, stagedUpTo, databaseVars, command, refreshing, leaked, failures>>

\* token_inner reads the bundle and asks for a new one ...
token_inner ==
  /\ token # {} /\ token \subseteq keyring /\ refreshing = {}
  /\ refreshing' = token
  /\ UNCHANGED <<keyring, stagedUpTo, databaseVars, command, token, leaked, failures>>

\* ... and persist stores it under the account it was read from, whatever became of that.
persist ==
  /\ refreshing # {}
  /\ keyring' = keyring \union refreshing
  /\ leaked' = leaked \union (refreshing \ keyring)
  /\ refreshing' = {}
  /\ UNCHANGED <<stagedUpTo, databaseVars, command, token, failures>>

----------------------------------------------------------------------------

\* References a command in progress still has to name or to erase.
InHand ==
  CASE command.op \in {"server", "proxy", "mcp", "key", "bundle"} -> command.staged
    [] command.op = "clean" -> command.todo
    [] OTHER -> {}

\* The program ends at any moment and starts again: the queue is tried once more.
Restart ==
  /\ Fails
  /\ Clean(queue)
  /\ leaked' = leaked \union (InHand \ (Named \union queue))
  /\ token' = {} /\ refreshing' = {}
  /\ UNCHANGED <<keyring, stagedUpTo, databaseVars>>

SecretsNext ==
  \/ \E s \in LoginServers :
       \/ \E method \in {"password", "certificate", "agent"}, n \in 0..2 : BeginServer(s, method, n)
       \/ \E i \in identities : ReuseIdentity(s, i)
       \/ server_delete(s)
  \/ StageLogin \/ SaveServer \/ Reclaim
  \/ \E clear \in BOOLEAN : BeginProxy(clear)
  \/ SaveProxy
  \/ \E kept \in SUBSET headerRow.headers, headers \in 0..MaxHeaders, oauth \in {"none", "same", "other"},
        client \in {"carried", "new", "dropped"} : BeginMcp(kept, headers, oauth, client)
  \/ StageHeader \/ resolve_oauth_config \/ SaveMcp \/ delete_mcp_server
  \/ \E b \in BOOLEAN : BeginConnect(b) \/ FlowEnds(b)
  \/ persist_oauth \/ store_connected_bundle
  \/ command.op = "clean" /\ \E ref \in command.todo : clean_credential_reference(ref)
  \/ StartSession \/ token_inner \/ persist \/ Restart

SecretsSpec == SecretsInit /\ [][SecretsNext]_secretVars

----------------------------------------------------------------------------
(* Properties *)

SecretsTypeOK ==
  /\ keyring \subseteq 1..stagedUpTo /\ queue \subseteq References
  /\ Named \subseteq References /\ leaked \subseteq References
  /\ DOMAIN login \subseteq LoginServers

\* A row never names a secret the credential store has lost: not when a save or an erase fails,
\* when servers share an identity, when the program ends between two steps, nor when the
\* queue of clean_credential_references is worked off at the next start.
RowsHaveSecrets == Named \subseteq keyring

\* A stored secret that nothing names is queued for erasure or in the hands of the command at
\* work.  The exceptions are the paths that record none: a header that fails after another was
\* staged, erasures and the key of oauth_connect, a queue that cannot be written, a refresh
\* that outlives its token, and the end of the program in the middle of a command.
LostSecretsAreQueued == keyring \subseteq Named \union queue \union InHand \union leaked
=============================================================================
