---------------------------- MODULE GitConnection ----------------------------
(***************************************************************************)
(* One Git provider connection of an organization and its OAuth credential *)
(* (server/git: connection-service.ts, credential-broker.ts,               *)
(* oauth-state.ts, stores-db.ts).  A credential is named by its refresh    *)
(* token, which the provider accepts once and answers with the next one.   *)
(* The row lock of withSecretLock is held by the resolver that refreshes;  *)
(* every other statement on the connection's row waits for it.             *)
(***************************************************************************)
EXTENDS Naturals, FiniteSets

CONSTANTS Resolvers, Authorizers, OAuthStates, MaxTokens, MaxGitMishaps

ASSUME GitAssumption == MaxTokens \in Nat \ {0} /\ MaxGitMishaps \in Nat

VARIABLES connection,      \* git_provider_connections.status
          secret,      \* git_provider_secrets: the credential, or no row
          oauthStates, \* git_oauth_states
          resolver,    \* each call that resolves the credential
          authorizer,  \* each call of completeAuthorization
          removal,     \* the call of disconnectConnection
          minted,      \* how many tokens the provider has issued
          accepted,    \* the refresh tokens the provider would accept
          due,         \* credentials about to expire: those issued up to this one
          spent,       \* refresh tokens that were answered with a successor
          replayed,    \* spent tokens that were presented again
          strays,      \* tokens whose successor was lost, or refreshed with no row to read
          gitMishaps

gitVars == <<connection, secret, oauthStates, resolver, authorizer, removal, minted,
             accepted, due, spent, replayed, strays, gitMishaps>>

Tokens == 1..MaxTokens
NoToken == 0
\* "unauthorized" is needs_reauthorization or revoked: both are refused alike.
ConnectionStatuses == {"active", "unauthorized", "error", "disconnected"}
NotResolving == [at |-> "idle", validates |-> FALSE, saw |-> "active", token |-> NoToken]
NotAuthorizing == [at |-> "idle", token |-> NoToken]
NotRemoving == [at |-> "idle", token |-> NoToken]

GitInit ==
    /\ connection = "active" /\ secret = 1
    /\ oauthStates = [s \in OAuthStates |-> "none"]
    /\ resolver = [p \in Resolvers |-> NotResolving]
    /\ authorizer = [a \in Authorizers |-> NotAuthorizing]
    /\ removal = NotRemoving
    /\ minted = 1 /\ accepted = {1} /\ due = 0
    /\ spent = {} /\ replayed = {}
    /\ strays = {} /\ gitMishaps = 0

provider == <<minted, accepted, due, spent, replayed>>
calls == <<resolver, authorizer, removal>>
Locked == \E p \in Resolvers : resolver[p].at \in {"locked", "storing"}
Slip == gitMishaps < MaxGitMishaps /\ gitMishaps' = gitMishaps + 1
Resolving(p, at, token) == resolver' = [resolver EXCEPT ![p].at = at, ![p].token = token]
ResolveDone(p) == resolver' = [resolver EXCEPT ![p] = NotResolving]

-----------------------------------------------------------------------------
(* resolve and loadStoredCredential; validateConnection reads the row first *)
(* and writes a status at the end.                                          *)
BeginCredential(p) ==
    /\ resolver[p].at = "idle"
    /\ \E validates \in BOOLEAN :
         resolver' = [resolver EXCEPT ![p] = [NotResolving EXCEPT !.at = "asked",
                                                !.validates = validates,
                                                !.saw = IF validates THEN connection ELSE @]]
    /\ UNCHANGED <<connection, secret, oauthStates, authorizer, removal, provider, strays, gitMishaps>>

\* A connection that is not usable is refused, and a validation records that.
ReadConnection(p) ==
    /\ resolver[p].at = "asked"
    /\ IF connection \in {"active", "error"} THEN Resolving(p, "reading", NoToken)
       ELSE IF resolver[p].validates THEN Resolving(p, "recording", NoToken)
       ELSE ResolveDone(p)
    /\ UNCHANGED <<connection, secret, oauthStates, authorizer, removal, provider, strays, gitMishaps>>

ReadStored(p) ==
    /\ resolver[p].at = "reading"
    /\ Resolving(p, IF secret = NoToken THEN "failing"
                    ELSE IF secret <= due THEN "refreshing" ELSE "resolved", secret)
    /\ UNCHANGED <<connection, secret, oauthStates, authorizer, removal, provider, strays, gitMishaps>>

\* Mutant: the secret is not read again under the lock.
LockWithoutReading(p) ==
    /\ resolver[p].at = "refreshing" /\ ~Locked
    /\ Resolving(p, "locked", resolver[p].token)
    /\ UNCHANGED <<connection, secret, oauthStates, authorizer, removal, provider, strays, gitMishaps>>

\* The row is locked and the secret read again; if it is gone, the copy is used.
LockSecret(p) ==
    LET current == IF secret = NoToken THEN resolver[p].token ELSE secret
    IN  /\ resolver[p].at = "refreshing" /\ ~Locked
        /\ Resolving(p, IF current <= due THEN "locked" ELSE "resolved", current)
        /\ strays' = IF secret = NoToken THEN strays \cup {current} ELSE strays
        /\ UNCHANGED <<connection, secret, oauthStates, authorizer, removal, provider, gitMishaps>>

\* The provider takes the token for its successor, or refuses it.
Refresh(p) ==
    LET token == resolver[p].token
    IN  /\ resolver[p].at = "locked"
        /\ replayed' = IF token \in spent THEN replayed \cup {token} ELSE replayed
        /\ IF token \in accepted
             THEN /\ minted < MaxTokens /\ minted' = minted + 1
                  /\ accepted' = (accepted \ {token}) \cup {minted + 1}
                  /\ spent' = spent \cup {token}
                  /\ \/ Resolving(p, "storing", minted + 1) /\ UNCHANGED <<strays, gitMishaps>>
                     \/ ResolveDone(p) /\ strays' = strays \cup {token} /\ Slip
             ELSE /\ Resolving(p, "failing", token)
                  /\ UNCHANGED <<minted, accepted, spent, strays, gitMishaps>>
        /\ UNCHANGED <<connection, secret, oauthStates, authorizer, removal, due>>

\* The successor is stored and the lock released at the commit.
StoreRefreshed(p) ==
    /\ resolver[p].at = "storing"
    /\ secret' = resolver[p].token
    /\ Resolving(p, "resolved", resolver[p].token)
    /\ UNCHANGED <<connection, oauthStates, authorizer, removal, provider, strays, gitMishaps>>

\* The transaction is rolled back, before or after the provider rotated.
RefreshLost(p) ==
    /\ resolver[p].at \in {"locked", "storing"} /\ Slip
    /\ strays' = IF resolver[p].at = "storing" /\ secret # NoToken THEN strays \cup {secret} ELSE strays
    /\ ResolveDone(p)
    /\ UNCHANGED <<connection, secret, oauthStates, authorizer, removal, provider>>

\* The provider answers or refuses a call that uses the credential; a validation also
\* records that the provider failed in another way.
UseCredential(p) ==
    /\ resolver[p].at = "resolved"
    /\ \/ resolver[p].token \notin accepted /\ Resolving(p, "failing", resolver[p].token)
       \/ resolver[p].validates /\ Resolving(p, "confirming", resolver[p].token)
       \/ resolver[p].validates /\ Resolving(p, "recording", NoToken)
       \/ ~resolver[p].validates /\ ResolveDone(p)
    /\ UNCHANGED <<connection, secret, oauthStates, authorizer, removal, provider, strays, gitMishaps>>

MarkAuthFailure(p) ==
    /\ resolver[p].at = "failing" /\ ~Locked
    /\ connection' = "unauthorized"
    /\ IF resolver[p].validates THEN Resolving(p, "recording", NoToken) ELSE ResolveDone(p)
    /\ UNCHANGED <<secret, oauthStates, authorizer, removal, provider, strays, gitMishaps>>

\* validateConnection's last statement: active, or the failure it met.
RecordValidation(p) ==
    /\ resolver[p].at \in {"confirming", "recording"} /\ ~Locked
    /\ IF resolver[p].at = "confirming" THEN connection' = "active"
       ELSE IF resolver[p].saw = "disconnected" THEN connection' = "disconnected"
       ELSE connection' \in {"unauthorized", "error", resolver[p].saw}
    /\ ResolveDone(p)
    /\ UNCHANGED <<secret, oauthStates, authorizer, removal, provider, strays, gitMishaps>>

-----------------------------------------------------------------------------
(* The authorization of this connection by its provider's callback. *)
StartAuthorization(s) ==
    /\ oauthStates[s] = "none"
    /\ oauthStates' = [oauthStates EXCEPT ![s] = "open"]
    /\ UNCHANGED <<connection, secret, calls, provider, strays, gitMishaps>>

CodeExchanged(a) ==
    /\ minted < MaxTokens /\ minted' = minted + 1
    /\ accepted' = accepted \cup {minted + 1}
    /\ authorizer' = [authorizer EXCEPT ![a] = [at |-> "upserting", token |-> minted + 1]]

\* The state is consumed first, whether or not the checks that follow and the
\* provider let the call go on.
Authorize(a, s) ==
    /\ authorizer[a].at = "idle" /\ oauthStates[s] = "open"
    /\ oauthStates' = [oauthStates EXCEPT ![s] = "consumed"]
    /\ CodeExchanged(a) \/ UNCHANGED <<authorizer, minted, accepted>>
    /\ UNCHANGED <<connection, secret, resolver, removal, due, spent, replayed, strays, gitMishaps>>

UpsertConnection(a) ==
    /\ authorizer[a].at = "upserting" /\ ~Locked
    /\ connection' = "active"
    /\ authorizer' = [authorizer EXCEPT ![a].at = "saving"]
    /\ UNCHANGED <<secret, oauthStates, resolver, removal, provider, strays, gitMishaps>>

\* An insert waits for the locked row it refers to; an update of the secret does not.
PersistCredential(a) ==
    /\ authorizer[a].at = "saving" /\ (secret = NoToken => ~Locked)
    /\ secret' = authorizer[a].token
    /\ authorizer' = [authorizer EXCEPT ![a] = NotAuthorizing]
    /\ UNCHANGED <<connection, oauthStates, resolver, removal, provider, strays, gitMishaps>>

AuthorizationFails(a) ==
    /\ authorizer[a].at # "idle"
    /\ authorizer' = [authorizer EXCEPT ![a] = NotAuthorizing]
    /\ UNCHANGED <<connection, secret, oauthStates, resolver, removal, provider, strays, gitMishaps>>

-----------------------------------------------------------------------------
(* disconnectConnection: revoke at the provider, delete, disconnect. *)
Removing(at) == removal' = [removal EXCEPT !.at = at]

BeginDisconnect ==
    /\ removal.at = "idle"
    /\ removal' = [at |-> "revoking", token |-> secret]
    /\ UNCHANGED <<connection, secret, oauthStates, resolver, authorizer, provider, strays, gitMishaps>>

RevokeRemotely ==
    /\ removal.at = "revoking"
    /\ accepted' \in {accepted, accepted \ {removal.token}}
    /\ Removing("detaching")
    /\ UNCHANGED <<connection, secret, oauthStates, resolver, authorizer, minted, due, spent, replayed,
                   strays, gitMishaps>>

DetachSecret ==
    /\ removal.at = "detaching" /\ ~Locked
    /\ Removing("deleting")
    /\ UNCHANGED <<connection, secret, oauthStates, resolver, authorizer, provider, strays, gitMishaps>>

DeleteSecret ==
    /\ removal.at = "deleting"
    /\ secret' = NoToken
    /\ Removing("disconnecting")
    /\ UNCHANGED <<connection, oauthStates, resolver, authorizer, provider, strays, gitMishaps>>

Disconnect ==
    /\ removal.at = "disconnecting" /\ ~Locked
    /\ connection' = "disconnected"
    /\ removal' = NotRemoving
    /\ UNCHANGED <<secret, oauthStates, resolver, authorizer, provider, strays, gitMishaps>>

\* Credentials come close to their ends, in the order in which they were issued.
ExpiryNears ==
    /\ due < minted /\ due' = due + 1
    /\ UNCHANGED <<connection, secret, oauthStates, calls, minted, accepted, spent, replayed,
                   strays, gitMishaps>>

-----------------------------------------------------------------------------
ResolverStep(p) ==
    \/ BeginCredential(p) \/ ReadConnection(p) \/ ReadStored(p) \/ LockSecret(p) \/ Refresh(p)
    \/ StoreRefreshed(p) \/ RefreshLost(p) \/ UseCredential(p) \/ MarkAuthFailure(p)
    \/ RecordValidation(p)

AuthorizerStep(a) ==
    \/ \E s \in OAuthStates : Authorize(a, s)
    \/ UpsertConnection(a) \/ PersistCredential(a) \/ AuthorizationFails(a)

GitNext ==
    \/ \E p \in Resolvers : ResolverStep(p)
    \/ \E a \in Authorizers : AuthorizerStep(a)
    \/ \E s \in OAuthStates : StartAuthorization(s)
    \/ BeginDisconnect \/ RevokeRemotely \/ DetachSecret \/ DeleteSecret \/ Disconnect
    \/ ExpiryNears

GitSpec == GitInit /\ [][GitNext]_gitVars

-----------------------------------------------------------------------------
\* Every row and every call has its shape.
GitTypeOK ==
    /\ connection \in ConnectionStatuses
    /\ secret \in Tokens \cup {NoToken}
    /\ oauthStates \in [OAuthStates -> {"none", "open", "consumed"}]
    /\ resolver \in [Resolvers -> [at : {"idle", "asked", "reading", "refreshing", "locked", "storing",
                                         "resolved", "failing", "confirming", "recording"},
                                   validates : BOOLEAN, saw : ConnectionStatuses, token : Tokens \cup {NoToken}]]
    /\ authorizer \in [Authorizers -> [at : {"idle", "upserting", "saving"},
                                       token : Tokens \cup {NoToken}]]
    /\ removal \in [at : {"idle", "revoking", "detaching", "deleting", "disconnecting"},
                    token : Tokens \cup {NoToken}]
    /\ minted \in Tokens
    /\ accepted \subseteq 1..minted /\ due \in 0..minted /\ strays \subseteq Tokens
    /\ spent \subseteq Tokens /\ replayed \subseteq Tokens
    /\ gitMishaps \in 0..MaxGitMishaps

\* A spent refresh token is never presented again, though many calls find the credential
\* due at once and authorizations and disconnections cross them,
\* unless its successor was lost with the transaction, or the row was deleted
\* under a refresher that waited for the lock.
TokensUsedOnce ==
    replayed \subseteq strays

\* git-provider-integration.md, line 154: "Disconnecting a provider deletes its credential".
DisconnectedHasNoCredential ==
    connection = "disconnected" => secret = NoToken
=============================================================================
