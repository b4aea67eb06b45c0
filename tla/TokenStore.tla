----------------------------- MODULE TokenStore -----------------------------
(***************************************************************************)
(* The refresh chain of an OAuth client kept alive by a script.  Every     *)
(* hour refresh_cron.sh sources the token file, asks the provider for a    *)
(* new pair and rewrites the file; a person may do the same by hand, or    *)
(* exchange a code for a first pair.  No step excludes another process.    *)
(* Script, secret, cron entry and tokens are loose files on a host that    *)
(* may be built again without them.                                        *)
(***************************************************************************)
EXTENDS Integers

CONSTANTS
  Tokens,       \* refresh tokens, named again once nobody holds them
  Clients,      \* client ids of the apps registered at the provider
  Default,      \* the id the script carries
  Crons,        \* hourly runs that may be under way at once
  Shells,       \* runs by hand
  Life,         \* hours until a refresh token lapses, 24 at the provider
  MaxMisses,    \* bound on requests that fail and on hours that end with the
                \* run not started or under way
  MaxTroubles,  \* bound on processes killed, answers lost and hosts rebuilt
  MaxManuals,   \* bound on runs by hand
  Dead, NoToken, Empty, NoFile

ASSUME DefaultAssumption == Default \in Clients
ASSUME TokensAssumption ==
  /\ Tokens # {} /\ {NoToken, Empty, NoFile} \cap Tokens = {}
  /\ Dead \notin [client : Clients, age : Nat]
ASSUME LifeAssumption == Life \in Nat \ {0}
ASSUME TokenBoundsAssumption == {MaxMisses, MaxTroubles, MaxManuals} \subseteq Nat

Runs == Crons \cup Shells

VARIABLES
  rotates,      \* a refresh revokes the token it used: the provider does not say
  granted,      \* what the provider has on each token
  file,         \* TOKEN_FILE: a token, Empty or NoFile
  secret,       \* the secret file is on the host
  scheduled,    \* so are the scripts and the entry of cron
  run,          \* where each process is
  due,          \* the run of this hour has not started
  broken,       \* history: no pair of the default client was saved since the
                \* chain was last cut
  hour,         \* history: "renewed" when a pair of the default client was
                \* saved in this hour, "carried" when a pair was waiting to be
                \* saved when the hour began, "open" otherwise
  missed,       \* history: whole hours that passed since one was renewed
  left          \* what is left of each bound

host == <<secret, scheduled>>
chain == <<broken, hour, missed>>
vars == <<rotates, granted, file, host, run, due, chain, left>>

Idle == [at |-> "idle", client |-> Default, token |-> NoToken]

Use(bound) ==
  /\ left[bound] > 0
  /\ left' = [left EXCEPT ![bound] = @ - 1]

\* Tokens no process and no file holds.
Spare == {t \in Tokens : file # t /\ \A r \in Runs : run[r].token # t}

Fresh == CHOOSE t \in Spare : TRUE

Accepted(r) ==
  /\ granted[run[r].token] # Dead
  /\ granted[run[r].token].client = run[r].client

----------------------------------------------------------------------------
(* The script.                                                             *)

\* Sourcing an empty or missing file ends the script, set -u or set -e.
Sourced(r, at, c) ==
  IF file \in Tokens
    THEN run' = [run EXCEPT ![r] = [at |-> at, client |-> c, token |-> file]]
    ELSE UNCHANGED run

\* Without the secret the run logs a failure and ends before the token file.
CronFires(r) ==
  /\ scheduled /\ due
  /\ run[r] = Idle
  /\ due' = FALSE
  /\ IF secret THEN Sourced(r, "asked", Default) ELSE UNCHANGED run
  /\ UNCHANGED <<rotates, granted, file, host, chain, left>>

\* By hand: the file is sourced before the secret is asked for.
cmd_refresh(r, c) ==
  /\ run[r] = Idle
  /\ Use("manuals")
  /\ Sourced(r, "prompt", c)
  /\ UNCHANGED <<rotates, granted, file, host, due, chain>>

SecretTyped(r) ==
  /\ run[r].at = "prompt"
  /\ run' = [run EXCEPT ![r].at = "asked"]
  /\ UNCHANGED <<rotates, granted, file, host, due, chain, left>>

cmd_exchange(r, c) ==
  /\ run[r] = Idle
  /\ Use("manuals")
  /\ run' = [run EXCEPT ![r] = [at |-> "code", client |-> c, token |-> NoToken]]
  /\ UNCHANGED <<rotates, granted, file, host, due, chain>>

\* What the provider does when it grants t to a client that used token old.
Grant(t, c, old) ==
  [u \in Tokens |-> IF u = t THEN [client |-> c, age |-> 0]
                    ELSE IF u = old /\ rotates THEN Dead ELSE granted[u]]

\* Faulty: the token that was sent is saved again.
AnsweredKeepingToken(r) ==
  /\ run[r].at = "asked" /\ Accepted(r) /\ Spare # {}
  /\ granted' = Grant(Fresh, run[r].client, run[r].token)
  /\ run' = [run EXCEPT ![r].at = "answered"]
  /\ UNCHANGED <<rotates, file, host, due, chain, left>>

\* The pair of the answer is what will be saved.
Answered(r) ==
  /\ run[r].at = "asked" /\ Accepted(r) /\ Spare # {}
  /\ granted' = Grant(Fresh, run[r].client, run[r].token)
  /\ run' = [run EXCEPT ![r].at = "answered", ![r].token = Fresh]
  /\ UNCHANGED <<rotates, file, host, due, chain, left>>

CodeAnswered(r) ==
  /\ run[r].at = "code" /\ Spare # {}
  /\ granted' = Grant(Fresh, run[r].client, NoToken)
  /\ run' = [run EXCEPT ![r].at = "answered", ![r].token = Fresh]
  /\ UNCHANGED <<rotates, file, host, due, chain, left>>

\* FALHOU: no access_token in the answer, and exit 1.  A code may have expired.
Refused(r) ==
  /\ \/ run[r].at = "asked" /\ ~Accepted(r)
     \/ run[r].at = "code"
  /\ run' = [run EXCEPT ![r] = Idle]
  /\ UNCHANGED <<rotates, granted, file, host, due, chain, left>>

\* save_tokens opens the file to write, which empties it, and then fills it.
Truncates(r) ==
  /\ run[r].at = "answered"
  /\ file' = Empty
  /\ run' = [run EXCEPT ![r].at = "truncated"]
  /\ broken' = (broken \/ run[r].client # Default)
  /\ UNCHANGED <<rotates, granted, host, due, hour, missed, left>>

Fills(r) ==
  /\ run[r].at = "truncated"
  /\ file' = run[r].token
  /\ broken' = (run[r].client # Default)
  /\ IF run[r].client = Default /\ hour # "carried"
       THEN hour' = "renewed" /\ missed' = 0
       ELSE UNCHANGED <<hour, missed>>
  /\ run' = [run EXCEPT ![r] = Idle]
  /\ UNCHANGED <<rotates, granted, host, due, left>>

----------------------------------------------------------------------------
(* Time and faults.                                                        *)

\* The request does not reach the provider, or nobody types the secret.
RequestFails(r) ==
  /\ run[r].at \in {"prompt", "asked", "code"}
  /\ Use("misses")
  /\ run' = [run EXCEPT ![r] = Idle]
  /\ UNCHANGED <<rotates, granted, file, host, due, chain>>

\* The provider answers and nobody hears it: curl ends the script.  The chain
\* is cut when the token that was sent is revoked.
LosesAnswer(r) ==
  /\ run[r].at = "asked" /\ Accepted(r)
  /\ Use("troubles")
  /\ granted' = [granted EXCEPT ![run[r].token] = IF rotates THEN Dead ELSE @]
  /\ run' = [run EXCEPT ![r] = Idle]
  /\ broken' = (broken \/ rotates)
  /\ UNCHANGED <<rotates, file, host, due, hour, missed>>

Killed(r) ==
  /\ run[r].at \in {"answered", "truncated"}
  /\ Use("troubles")
  /\ run' = [run EXCEPT ![r] = Idle]
  /\ broken' = (broken \/ rotates \/ run[r].at = "truncated")
  /\ UNCHANGED <<rotates, granted, file, host, due, hour, missed>>

\* The host is built again: tokens, secret, scripts and the entry of cron are
\* gone, and whatever was running with them.
Wiped ==
  /\ Use("troubles")
  /\ file' = NoFile
  /\ secret' = FALSE /\ scheduled' = FALSE /\ due' = FALSE
  /\ run' = [r \in Runs |-> Idle]
  /\ broken' = TRUE
  /\ UNCHANGED <<rotates, granted, hour, missed>>

\* Somebody puts the secret, or the scripts and the entry of cron, on the host.
PlacesSecret ==
  /\ ~secret
  /\ secret' = TRUE
  /\ UNCHANGED <<rotates, granted, file, scheduled, run, due, chain, left>>

Schedules ==
  /\ ~scheduled
  /\ scheduled' = TRUE
  /\ UNCHANGED <<rotates, granted, file, secret, run, due, chain, left>>

\* Faulty: a token that lives an hour too long.
AgedPastLife ==
  [t \in Tokens |->
    IF granted[t] = Dead \/ granted[t].age + 1 > Life
      THEN Dead
      ELSE [granted[t] EXCEPT !.age = @ + 1]]

Aged ==
  [t \in Tokens |->
    IF granted[t] = Dead \/ granted[t].age + 1 >= Life
      THEN Dead
      ELSE [granted[t] EXCEPT !.age = @ + 1]]

Undisturbed == ~due /\ \A r \in Runs : run[r].at \in {"idle", "prompt"}

HourPasses ==
  /\ IF Undisturbed THEN UNCHANGED left ELSE Use("misses")
  /\ granted' = Aged
  /\ missed' = IF hour = "renewed" \/ missed = Life THEN missed ELSE missed + 1
  /\ hour' = IF \E r \in Runs : run[r].at \in {"answered", "truncated"}
                THEN "carried" ELSE "open"
  /\ UNCHANGED <<rotates, file, host, run, broken>>

\* Faulty: the hourly run not scheduled again.
TickUnscheduled == HourPasses /\ UNCHANGED due

Tick == HourPasses /\ due' = scheduled

----------------------------------------------------------------------------
TokenBounds == [misses |-> MaxMisses, troubles |-> MaxTroubles, manuals |-> MaxManuals]

Init ==
  /\ rotates \in BOOLEAN
  /\ run = [r \in Runs |-> Idle]
  /\ left = TokenBounds
  /\ hour = "open" /\ missed = 0
  /\ \/ /\ file = NoFile /\ broken = TRUE /\ secret = FALSE /\ scheduled = FALSE
        /\ granted = [t \in Tokens |-> Dead]
     \/ /\ file = (CHOOSE t \in Tokens : TRUE)
        /\ broken = FALSE /\ secret = TRUE /\ scheduled = TRUE
        /\ granted = [t \in Tokens |-> IF t = file THEN [client |-> Default, age |-> 0] ELSE Dead]
  /\ due = scheduled

Goes(r) == Answered(r) \/ CodeAnswered(r) \/ Refused(r) \/ Truncates(r) \/ Fills(r)

Next ==
  \/ \E r \in Crons : CronFires(r)
  \/ \E r \in Shells, c \in Clients : cmd_refresh(r, c) \/ cmd_exchange(r, c)
  \/ \E r \in Runs :
       SecretTyped(r) \/ Goes(r) \/ RequestFails(r) \/ LosesAnswer(r) \/ Killed(r)
  \/ Wiped \/ PlacesSecret \/ Schedules
  \/ Tick

Spec == Init /\ [][Next]_vars

\* A run gets an answer and ends, cron fires once an hour, and hours pass.
Fairness ==
  /\ \A r \in Runs : WF_vars(Goes(r))
  /\ WF_vars(\E r \in Crons : CronFires(r))
  /\ WF_vars(Tick)

FairSpec == Spec /\ Fairness

----------------------------------------------------------------------------
TypeOK ==
  /\ {rotates, secret, scheduled, due, broken} \subseteq BOOLEAN
  /\ granted \in [Tokens -> [client : Clients, age : 0 .. (Life - 1)] \cup {Dead}]
  /\ file \in Tokens \cup {NoFile, Empty}
  /\ run \in [Runs -> [at : {"idle", "prompt", "code", "asked", "answered", "truncated"},
                       client : Clients, token : Tokens \cup {NoToken}]]
  /\ hour \in {"open", "renewed", "carried"} /\ missed \in 0 .. Life
  /\ left \in [DOMAIN TokenBounds -> Nat]

Renews(t, hours) ==
  granted[t] # Dead /\ granted[t].client = Default /\ granted[t].age <= hours

\* Whether or not the provider rotates, and however runs by hand and hourly
\* ones overlap, a chain nobody cut, whose missed hours leave it some life, is
\* in the file or in the hands of a run that will save it, and is at most an
\* hour older than the hours missed.  A host rebuilt, a pair of another app, a
\* run killed with the file open, and with rotation an answer that is not
\* saved, cut it; an answer lost without rotation does not.
ChainHeld ==
  ~broken /\ missed + 1 < Life =>
    \/ file \in Tokens /\ Renews(file, missed + 1)
    \/ \E r \in Runs :
         run[r].at \in {"answered", "truncated"} /\ Renews(run[r].token, missed + 1)

Cut == broken \/ ~scheduled \/ ~secret

\* From any hour whose run is still to start and before which none was missed,
\* a chain is renewed for ever, unless it is cut or its host loses the secret or
\* the entry of cron: nothing else ends it, the hours whose request or answer
\* is lost included, when a token outlives as many of them as can be.
RenewedForEver ==
  (due /\ missed = 0 ~> Cut) \/ []<>(file \in Tokens /\ Renews(file, 0))
=============================================================================
