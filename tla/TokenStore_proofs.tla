-------------------------- MODULE TokenStore_proofs --------------------------
(***************************************************************************)
(* A chain nobody cut, with life left, is never lost, for any number of    *)
(* overlapping runs, whether the provider rotates or not, and however      *)
(* often the host is rebuilt and the runs are scheduled again.             *)
(***************************************************************************)
EXTENDS TokenStore, TLAPS

Holding(r) == run[r].at \in {"answered", "truncated"}

\* What a run is about to save is in no other hands and not in the file.
OnlyCopy ==
  \A r \in Runs : Holding(r) =>
    /\ run[r].token \in Tokens
    /\ file # run[r].token
    /\ \A q \in Runs : q # r => run[q].token # run[r].token

\* The provider still has on a run's token the client that asked, hours old at
\* most.
Young(r, hours) ==
  /\ granted[run[r].token] # Dead
  /\ granted[run[r].token].client = run[r].client
  /\ granted[run[r].token].age <= hours

\* What is about to be saved was granted in this hour, unless it was carried
\* into it, and then its age is made of hours that were missed.
HandsYoung ==
  \A r \in Runs : Holding(r) =>
    /\ hour # "carried" => Young(r, 0)
    /\ missed + 1 < Life => Young(r, missed + 1)

\* A run whose pair is the chain: the token before it is revoked or gone.
InHands(r) ==
  Holding(r) /\ run[r].client = Default /\ (rotates \/ run[r].at = "truncated")

InFile ==
  /\ file \in Tokens
  /\ missed + 1 < Life => Renews(file, missed + 1)
  /\ hour = "renewed" => Renews(file, 0)

InHandsOrFile == ~broken => InFile \/ \E r \in Runs : InHands(r)

ChainInv == TypeOK /\ OnlyCopy /\ HandsYoung /\ InHandsOrFile

Grants == [client : Clients, age : 0 .. (Life - 1)]
Places == {"idle", "prompt", "code", "asked", "answered", "truncated"}
RunRecords == [at : Places, client : Clients, token : Tokens \cup {NoToken}]

LEMMA TypeUnfolds ==
  TypeOK <=> /\ {rotates, secret, scheduled, due, broken} \subseteq BOOLEAN
             /\ granted \in [Tokens -> Grants \cup {Dead}]
             /\ file \in Tokens \cup {NoFile, Empty}
             /\ run \in [Runs -> RunRecords]
             /\ hour \in {"open", "renewed", "carried"} /\ missed \in 0 .. Life
             /\ left \in [DOMAIN TokenBounds -> Nat]
BY DEF TypeOK, Grants, Places, RunRecords

\* The bounds are kept by a step that uses one of them.
LEMMA UseType ==
  ASSUME left \in [DOMAIN TokenBounds -> Nat], NEW b \in DOMAIN TokenBounds, Use(b)
  PROVE  left' \in [DOMAIN TokenBounds -> Nat]
PROOF
  <1>1. left' = [left EXCEPT ![b] = @ - 1] /\ left[b] > 0 /\ left[b] \in Nat
    BY DEF Use
  <1>2. left[b] - 1 \in Nat
    BY <1>1
  <1> QED BY <1>1, <1>2

LEMMA BoundNames == DOMAIN TokenBounds = {"misses", "troubles", "manuals"}
BY DEF TokenBounds

LEMMA IdleRecord == Idle \in RunRecords /\ Idle.at = "idle" /\ Idle.token = NoToken
BY DefaultAssumption DEF Idle, RunRecords, Places

\* When nobody comes to hold a pair, and who holds one keeps it, no pair is
\* held twice.
LEMMA OnlyCopyStays ==
  ASSUME OnlyCopy, file' \in {file, NoFile},
         \A q \in Runs : Holding(q)' => Holding(q) /\ run'[q] = run[q],
         \A q \in Runs : run'[q].token \in {file, NoToken, run[q].token}
  PROVE  OnlyCopy'
PROOF
  <1> SUFFICES ASSUME NEW q \in Runs, Holding(q)'
               PROVE  /\ run'[q].token \in Tokens
                      /\ file' # run'[q].token
                      /\ \A o \in Runs : o # q => run'[o].token # run'[q].token
    BY DEF OnlyCopy
  <1>1. /\ run'[q] = run[q] /\ run[q].token \in Tokens /\ file # run[q].token
        /\ \A o \in Runs : o # q => run[o].token # run[q].token
    BY DEF OnlyCopy
  <1> QED BY <1>1, TokensAssumption

\* Steps that change neither provider, file nor history, by runs that hold no
\* pair before or after.
LEMMA AsideKeeps ==
  ASSUME ChainInv, TypeOK', UNCHANGED <<rotates, granted, file, chain>>,
         \A q \in Runs : Holding(q) => run'[q] = run[q],
         \A q \in Runs : Holding(q)' => Holding(q),
         \A q \in Runs : run'[q].token \in {file, NoToken, run[q].token}
  PROVE  ChainInv'
PROOF
  <1>1. UNCHANGED <<broken, hour, missed>>
    BY DEF chain
  <1>2. OnlyCopy'
    BY OnlyCopyStays DEF ChainInv
  <1>3. HandsYoung'
    BY <1>1 DEF ChainInv, HandsYoung, Young
  <1>4. \A q \in Runs : InHands(q) => InHands(q)'
    BY DEF InHands, Holding
  <1>5. InFile => InFile'
    BY <1>1 DEF InFile, Renews
  <1> QED BY <1>1, <1>2, <1>3, <1>4, <1>5 DEF ChainInv, InHandsOrFile

\* The same, of one run that moves to p.
LEMMA OneMovesAside ==
  ASSUME ChainInv, NEW r \in Runs, NEW p \in RunRecords, ~Holding(r),
         run' = [run EXCEPT ![r] = p],
         p.at \notin {"answered", "truncated"}, p.token \in {file, NoToken, run[r].token},
         UNCHANGED <<rotates, granted, file, chain, host>>,
         due' \in BOOLEAN, left' \in [DOMAIN TokenBounds -> Nat]
  PROVE  ChainInv'
PROOF
  <1>1. run' \in [Runs -> RunRecords] /\ run'[r] = p /\ \A q \in Runs : q # r => run'[q] = run[q]
    BY TypeUnfolds DEF ChainInv
  <1>2. TypeOK'
    BY <1>1, TypeUnfolds DEF ChainInv, TypeOK, RunRecords, Places, chain, host, TokenBounds
  <1>3. /\ \A q \in Runs : Holding(q) => run'[q] = run[q]
        /\ \A q \in Runs : Holding(q)' => Holding(q)
        /\ \A q \in Runs : run'[q].token \in {file, NoToken, run[q].token}
    BY <1>1 DEF Holding
  <1> QED BY <1>2, <1>3, AsideKeeps

\* The same, when no run moves.
LEMMA NoneMoves ==
  ASSUME ChainInv, run' = run, UNCHANGED <<rotates, granted, file, chain>>,
         {secret', scheduled', due'} \subseteq BOOLEAN, left' \in [DOMAIN TokenBounds -> Nat]
  PROVE  ChainInv'
PROOF
  <1>1. TypeOK'
    BY TypeUnfolds DEF ChainInv, TypeOK, chain, TokenBounds
  <1> QED BY <1>1, AsideKeeps DEF Holding

----------------------------------------------------------------------------
LEMMA CronKeeps ==
  ASSUME ChainInv, NEW r \in Crons, CronFires(r) PROVE ChainInv'
PROOF
  <1>1. /\ r \in Runs /\ run[r] = Idle /\ due' = FALSE
        /\ UNCHANGED <<rotates, granted, file, host, chain, left>>
    BY DEF CronFires, Runs
  <1>2. left' \in [DOMAIN TokenBounds -> Nat] /\ {secret', scheduled'} \subseteq BOOLEAN
    BY <1>1, TypeUnfolds DEF ChainInv, host
  <1>3. CASE secret /\ file \in Tokens
    <2> DEFINE p == [at |-> "asked", client |-> Default, token |-> file]
    <2>1. p \in RunRecords /\ run' = [run EXCEPT ![r] = p]
      BY <1>3, DefaultAssumption DEF RunRecords, Places, CronFires, Sourced
    <2>2. p.at \notin {"answered", "truncated"} /\ p.token = file
      OBVIOUS
    <2>3. ~Holding(r)
      BY <1>1, IdleRecord DEF Holding
    <2> HIDE DEF p
    <2> QED BY <1>1, <1>2, <2>1, <2>2, <2>3, OneMovesAside
  <1>4. CASE ~(secret /\ file \in Tokens)
    <2>1. run' = run
      BY <1>4 DEF CronFires, Sourced
    <2> QED BY <1>1, <1>2, <2>1, NoneMoves
  <1> QED BY <1>3, <1>4

LEMMA ByHandKeeps ==
  ASSUME ChainInv, NEW r \in Runs, NEW c \in Clients, cmd_refresh(r, c) \/ cmd_exchange(r, c)
  PROVE  ChainInv'
PROOF
  <1>1. run[r] = Idle /\ Use("manuals") /\ UNCHANGED <<rotates, granted, file, host, due, chain>>
    BY DEF cmd_refresh, cmd_exchange
  <1>2. /\ left' \in [DOMAIN TokenBounds -> Nat]
        /\ {secret', scheduled', due'} \subseteq BOOLEAN
    BY <1>1, UseType, BoundNames, TypeUnfolds DEF ChainInv, host
  <1>3. ~Holding(r)
    BY <1>1, IdleRecord DEF Holding
  <1>4. CASE run' = run
    BY <1>1, <1>2, <1>4, NoneMoves
  <1>5. CASE cmd_refresh(r, c) /\ file \in Tokens
    <2> DEFINE p == [at |-> "prompt", client |-> c, token |-> file]
    <2>1. p \in RunRecords /\ run' = [run EXCEPT ![r] = p]
      BY <1>5 DEF cmd_refresh, Sourced, RunRecords, Places
    <2>2. p.at \notin {"answered", "truncated"} /\ p.token = file
      OBVIOUS
    <2> HIDE DEF p
    <2> QED BY <1>1, <1>2, <1>3, <2>1, <2>2, OneMovesAside
  <1>6. CASE cmd_exchange(r, c)
    <2> DEFINE p == [at |-> "code", client |-> c, token |-> NoToken]
    <2>1. p \in RunRecords /\ run' = [run EXCEPT ![r] = p]
      BY <1>6 DEF cmd_exchange, RunRecords, Places
    <2>2. p.at \notin {"answered", "truncated"} /\ p.token = NoToken
      OBVIOUS
    <2> HIDE DEF p
    <2> QED BY <1>1, <1>2, <1>3, <2>1, <2>2, OneMovesAside
  <1> QED BY <1>4, <1>5, <1>6 DEF cmd_refresh, Sourced

LEMMA SecretTypedKeeps ==
  ASSUME ChainInv, NEW r \in Runs, SecretTyped(r) PROVE ChainInv'
PROOF
  <1> DEFINE p == [run[r] EXCEPT !.at = "asked"]
  <1>1. run[r] \in RunRecords
    BY TypeUnfolds DEF ChainInv
  <1>2. p \in RunRecords /\ p.at = "asked" /\ p.token = run[r].token
    BY <1>1 DEF RunRecords, Places
  <1>3. /\ run' = [run EXCEPT ![r] = p] /\ ~Holding(r)
        /\ UNCHANGED <<rotates, granted, file, host, chain, due, left>>
    BY DEF SecretTyped, Holding
  <1>4. left' \in [DOMAIN TokenBounds -> Nat] /\ due' \in BOOLEAN
    BY <1>3, TypeUnfolds DEF ChainInv
  <1> HIDE DEF p
  <1> QED BY <1>2, <1>3, <1>4, OneMovesAside

\* A run that ends without an answer.
LEMMA EndsKeeps ==
  ASSUME ChainInv, NEW r \in Runs, Refused(r) \/ RequestFails(r) PROVE ChainInv'
PROOF
  <1>1. /\ run' = [run EXCEPT ![r] = Idle] /\ ~Holding(r)
        /\ UNCHANGED <<rotates, granted, file, host, chain, due>>
        /\ Use("misses") \/ left' = left
    BY DEF Refused, RequestFails, Holding
  <1>2. left' \in [DOMAIN TokenBounds -> Nat] /\ due' \in BOOLEAN
    BY <1>1, UseType, BoundNames, TypeUnfolds DEF ChainInv
  <1> QED BY <1>1, <1>2, IdleRecord, OneMovesAside

LEMMA PlacedKeeps ==
  ASSUME ChainInv, PlacesSecret \/ Schedules PROVE ChainInv'
PROOF
  <1>1. /\ run' = run /\ UNCHANGED <<rotates, granted, file, chain, due, left>>
        /\ {secret', scheduled'} \subseteq BOOLEAN
    BY TypeUnfolds DEF PlacesSecret, Schedules, ChainInv
  <1>2. left' \in [DOMAIN TokenBounds -> Nat] /\ due' \in BOOLEAN
    BY <1>1, TypeUnfolds DEF ChainInv
  <1> QED BY <1>1, <1>2, NoneMoves

----------------------------------------------------------------------------
\* The token the provider grants is in nobody's hands.
LEMMA FreshIsSpare ==
  ASSUME Spare # {}
  PROVE  Fresh \in Tokens /\ file # Fresh /\ \A q \in Runs : run[q].token # Fresh
BY DEF Fresh, Spare

\* A grant leaves the other tokens as they were, but for the one that asked
\* when the provider rotates.
LEMMA GrantType ==
  ASSUME granted \in [Tokens -> Grants \cup {Dead}], NEW t \in Tokens, NEW c \in Clients, NEW old
  PROVE  /\ Grant(t, c, old) \in [Tokens -> Grants \cup {Dead}]
         /\ Grant(t, c, old)[t] = [client |-> c, age |-> 0]
         /\ \A u \in Tokens : u # t /\ (u # old \/ ~rotates) => Grant(t, c, old)[u] = granted[u]
PROOF
  <1>1. [client |-> c, age |-> 0] \in Grants
    BY LifeAssumption DEF Grants
  <1> QED BY <1>1 DEF Grant

LEMMA AnswerKeeps ==
  ASSUME ChainInv, NEW r \in Runs, Answered(r) \/ CodeAnswered(r) PROVE ChainInv'
PROOF
  <1>1. /\ Spare # {} /\ run[r].at \in {"asked", "code"}
        /\ run' = [run EXCEPT ![r].at = "answered", ![r].token = Fresh]
        /\ UNCHANGED <<rotates, file, host, due, chain, left>>
    BY DEF Answered, CodeAnswered
  <1>2. PICK old : /\ granted' = Grant(Fresh, run[r].client, old)
                   /\ old = NoToken \/ (old = run[r].token /\ Accepted(r))
    BY DEF Answered, CodeAnswered
  <1>3. run[r] \in RunRecords /\ run \in [Runs -> RunRecords] /\ granted \in [Tokens -> Grants \cup {Dead}]
    BY TypeUnfolds DEF ChainInv
  <1>4. Fresh \in Tokens /\ file # Fresh /\ \A q \in Runs : run[q].token # Fresh
    BY <1>1, FreshIsSpare
  <1>5. /\ granted' \in [Tokens -> Grants \cup {Dead}]
        /\ granted'[Fresh] = [client |-> run[r].client, age |-> 0]
        /\ \A u \in Tokens : u # Fresh /\ (u # old \/ ~rotates) => granted'[u] = granted[u]
    <2>1. run[r].client \in Clients
      BY <1>3 DEF RunRecords
    <2> QED BY <1>2, <1>3, <1>4, <2>1, GrantType
  <1>6. /\ run' \in [Runs -> RunRecords]
        /\ run'[r].at = "answered" /\ run'[r].token = Fresh /\ run'[r].client = run[r].client
        /\ \A q \in Runs : q # r => run'[q] = run[q]
    BY <1>1, <1>3, <1>4 DEF RunRecords, Places
  <1>7. UNCHANGED <<secret, scheduled, broken, hour, missed>>
    BY <1>1 DEF host, chain
  <1>8. TypeOK'
    BY <1>1, <1>5, <1>6, <1>7, TypeUnfolds DEF ChainInv, TypeOK, RunRecords, Places, Grants, TokenBounds
  <1>9. Holding(r)' /\ ~Holding(r) /\ \A q \in Runs : q # r => (Holding(q)' <=> Holding(q))
    BY <1>1, <1>6 DEF Holding
  <1>10. \A q \in Runs : Holding(q) => /\ run[q].token \in Tokens /\ file # run[q].token
                                      /\ \A o \in Runs : o # q => run[o].token # run[q].token
    BY DEF ChainInv, OnlyCopy
  <1>11. OnlyCopy'
    <2> SUFFICES ASSUME NEW q \in Runs, Holding(q)'
                 PROVE  /\ run'[q].token \in Tokens
                        /\ file' # run'[q].token
                        /\ \A o \in Runs : o # q => run'[o].token # run'[q].token
      BY DEF OnlyCopy
    <2>1. CASE q = r
      BY <1>1, <1>4, <1>6, <2>1
    <2>2. CASE q # r
      BY <1>1, <1>4, <1>6, <1>9, <1>10, <2>2
    <2> QED BY <2>1, <2>2
  <1>12. HandsYoung'
    <2> SUFFICES ASSUME NEW q \in Runs, Holding(q)'
                 PROVE  /\ hour # "carried" => Young(q, 0)'
                        /\ missed + 1 < Life => Young(q, missed + 1)'
      BY <1>7 DEF HandsYoung, Young
    <2>1. CASE q = r
      <3>1. granted'[Fresh] # Dead
        BY <1>3, <1>5, TokensAssumption DEF RunRecords
      <3>2. missed \in Int /\ missed >= 0
        BY TypeUnfolds, LifeAssumption DEF ChainInv
      <3> QED BY <1>5, <1>6, <1>7, <2>1, <3>1, <3>2 DEF Young
    <2>2. CASE q # r
      <3>1. Holding(q) /\ run'[q] = run[q]
        BY <1>6, <1>9, <2>2
      <3>2. run[q].token # old /\ run[q].token # Fresh
        BY <1>2, <1>4, <1>10, <2>2, <3>1, TokensAssumption
      <3>3. granted'[run[q].token] = granted[run[q].token]
        BY <1>5, <1>10, <3>1, <3>2
      <3> QED BY <1>7, <3>1, <3>3 DEF ChainInv, HandsYoung, Young
    <2> QED BY <2>1, <2>2
  <1>13. InHandsOrFile'
    <2> SUFFICES ASSUME ~broken PROVE InFile' \/ \E q \in Runs : InHands(q)'
      BY <1>7 DEF InHandsOrFile
    <2>1. CASE rotates /\ run[r].client = Default
      BY <1>1, <1>6, <1>9, <2>1 DEF InHands
    <2>2. CASE \E q \in Runs : InHands(q)
      BY <1>1, <1>6, <1>9, <2>2 DEF InHands
    <2>3. CASE InFile /\ ~(rotates /\ run[r].client = Default)
      <3>1. ASSUME NEW h, Renews(file, h) PROVE granted'[file] = granted[file]
        <4>1. old # file \/ ~rotates
          BY <1>2, <2>3, <3>1, TokensAssumption DEF Accepted, Renews, InFile
        <4> QED BY <1>4, <1>5, <2>3, <4>1 DEF InFile
      <3> QED BY <1>1, <1>7, <2>3, <3>1 DEF InFile, Renews
    <2> QED BY <2>1, <2>2, <2>3 DEF ChainInv, InHandsOrFile
  <1> QED BY <1>8, <1>11, <1>12, <1>13 DEF ChainInv

----------------------------------------------------------------------------
LEMMA TruncateKeeps ==
  ASSUME ChainInv, NEW r \in Runs, Truncates(r) PROVE ChainInv'
PROOF
  <1>1. /\ run[r].at = "answered" /\ file' = Empty
        /\ run' = [run EXCEPT ![r].at = "truncated"]
        /\ broken' = (broken \/ run[r].client # Default)
        /\ UNCHANGED <<rotates, granted, host, due, hour, missed, left>>
    BY DEF Truncates
  <1>2. run[r] \in RunRecords /\ run \in [Runs -> RunRecords]
    BY TypeUnfolds DEF ChainInv
  <1>3. /\ run' \in [Runs -> RunRecords]
        /\ run'[r].at = "truncated" /\ run'[r].token = run[r].token /\ run'[r].client = run[r].client
        /\ \A q \in Runs : q # r => run'[q] = run[q]
    BY <1>1, <1>2 DEF RunRecords, Places
  <1>4. \A q \in Runs : (Holding(q)' <=> Holding(q)) /\ run'[q].token = run[q].token /\ run'[q].client = run[q].client
    BY <1>1, <1>3 DEF Holding
  <1>5. TypeOK'
    <2>1. broken' \in BOOLEAN
      BY <1>1
    <2> QED BY <1>1, <1>3, <2>1, TypeUnfolds DEF ChainInv, TypeOK, RunRecords, Places, TokenBounds, host
  <1>6. OnlyCopy'
    BY <1>1, <1>4, TokensAssumption DEF ChainInv, OnlyCopy
  <1>7. HandsYoung'
    BY <1>1, <1>4 DEF ChainInv, HandsYoung, Young
  <1>8. InHandsOrFile'
    <2> SUFFICES ASSUME ~broken' PROVE \E q \in Runs : InHands(q)'
      BY DEF InHandsOrFile
    <2>1. Holding(r)' /\ run'[r].client = Default
      BY <1>1, <1>3 DEF Holding
    <2> QED BY <1>3, <2>1 DEF InHands
  <1> QED BY <1>5, <1>6, <1>7, <1>8 DEF ChainInv

LEMMA FillKeeps ==
  ASSUME ChainInv, NEW r \in Runs, Fills(r) PROVE ChainInv'
PROOF
  <1>1. /\ run[r].at = "truncated" /\ file' = run[r].token
        /\ broken' = (run[r].client # Default)
        /\ run' = [run EXCEPT ![r] = Idle]
        /\ UNCHANGED <<rotates, granted, host, due, left>>
        /\ \/ run[r].client = Default /\ hour # "carried" /\ hour' = "renewed" /\ missed' = 0
           \/ (run[r].client # Default \/ hour = "carried") /\ hour' = hour /\ missed' = missed
    BY DEF Fills
  <1>2. run' \in [Runs -> RunRecords] /\ run'[r] = Idle /\ \A q \in Runs : q # r => run'[q] = run[q]
    BY <1>1, IdleRecord, TypeUnfolds DEF ChainInv
  <1>3. ~Holding(r)' /\ \A q \in Runs : q # r => (Holding(q)' <=> Holding(q))
    BY <1>2, IdleRecord DEF Holding
  <1>4. /\ run[r].token \in Tokens
        /\ \A q \in Runs : q # r => run[q].token # run[r].token
        /\ hour # "carried" => Young(r, 0)
        /\ missed + 1 < Life => Young(r, missed + 1)
    BY <1>1 DEF ChainInv, OnlyCopy, HandsYoung, Holding
  <1>5. missed \in 0 .. Life /\ Life \in Nat
    BY TypeUnfolds, LifeAssumption DEF ChainInv
  <1>6. TypeOK'
    <2>1. hour' \in {"open", "renewed", "carried"} /\ missed' \in 0 .. Life /\ broken' \in BOOLEAN
      BY <1>1, <1>5, TypeUnfolds DEF ChainInv
    <2> QED BY <1>1, <1>2, <1>4, <2>1, TypeUnfolds DEF ChainInv, TypeOK, RunRecords, Places, TokenBounds, host
  <1>7. OnlyCopy'
    <2> SUFFICES ASSUME NEW q \in Runs, Holding(q)'
                 PROVE  /\ run'[q].token \in Tokens
                        /\ file' # run'[q].token
                        /\ \A o \in Runs : o # q => run'[o].token # run'[q].token
      BY DEF OnlyCopy
    <2>1. q # r /\ Holding(q) /\ run'[q] = run[q]
      BY <1>2, <1>3
    <2>2. run[q].token \in Tokens /\ \A o \in Runs : o # q => run[o].token # run[q].token
      BY <2>1 DEF ChainInv, OnlyCopy
    <2> QED BY <1>1, <1>2, <2>1, <2>2, IdleRecord, TokensAssumption
  <1>8. HandsYoung'
    <2> SUFFICES ASSUME NEW q \in Runs, Holding(q)'
                 PROVE  /\ hour' # "carried" => Young(q, 0)'
                        /\ missed' + 1 < Life => Young(q, missed + 1)'
      BY DEF HandsYoung, Young
    <2>1. Holding(q) /\ run'[q] = run[q]
      BY <1>2, <1>3
    <2>2. /\ hour # "carried" => Young(q, 0)
          /\ missed + 1 < Life => Young(q, missed + 1)
      BY <2>1 DEF ChainInv, HandsYoung
    <2>3. CASE hour # "carried" /\ missed' = 0
      <3>1. granted[run[q].token] # Dead => granted[run[q].token].age \in Int
        BY <2>1, TypeUnfolds DEF ChainInv, Grants, OnlyCopy
      <3> QED BY <1>1, <2>1, <2>2, <2>3, <3>1 DEF Young
    <2>4. CASE hour' = hour /\ missed' = missed
      BY <1>1, <2>1, <2>2, <2>4 DEF Young
    <2> QED BY <1>1, <2>3, <2>4
  <1>9. InHandsOrFile'
    <2> SUFFICES ASSUME run[r].client = Default PROVE InFile'
      BY <1>1 DEF InHandsOrFile
    <2>1. granted[run[r].token] # Dead => granted[run[r].token].age \in Int
      BY <1>4, TypeUnfolds DEF ChainInv, Grants
    <2>2. CASE hour # "carried"
      <3>1. Young(r, 0) /\ hour' = "renewed" /\ missed' = 0
        BY <1>1, <1>4, <2>2
      <3> QED BY <1>1, <1>4, <2>1, <3>1 DEF InFile, Renews, Young
    <2>3. CASE hour = "carried"
      <3>1. hour' = "carried" /\ missed' = missed
        BY <1>1, <2>3
      <3> QED BY <1>1, <1>4, <3>1 DEF InFile, Renews, Young
    <2> QED BY <2>2, <2>3
  <1> QED BY <1>6, <1>7, <1>8, <1>9 DEF ChainInv

\* A run killed, or whose answer is lost, takes the chain along only with
\* rotation or with the file open.
LEMMA CutKeeps ==
  ASSUME ChainInv, NEW r \in Runs, LosesAnswer(r) \/ Killed(r) PROVE ChainInv'
PROOF
  <1>1. /\ Use("troubles") /\ run' = [run EXCEPT ![r] = Idle]
        /\ UNCHANGED <<rotates, file, host, due, hour, missed>>
    BY DEF LosesAnswer, Killed
  <1>2. left' \in [DOMAIN TokenBounds -> Nat]
    BY <1>1, UseType, BoundNames, TypeUnfolds DEF ChainInv
  <1>3. run' \in [Runs -> RunRecords] /\ run'[r] = Idle /\ \A q \in Runs : q # r => run'[q] = run[q]
    BY <1>1, IdleRecord, TypeUnfolds DEF ChainInv
  <1>4. ~Holding(r)' /\ \A q \in Runs : q # r => (Holding(q)' <=> Holding(q))
    BY <1>3, IdleRecord DEF Holding
  <1>5. /\ granted' \in [Tokens -> Grants \cup {Dead}]
        /\ \A t \in Tokens : t # run[r].token \/ ~rotates \/ Holding(r) => granted'[t] = granted[t]
    <2>1. granted \in [Tokens -> Grants \cup {Dead}]
      BY TypeUnfolds DEF ChainInv
    <2>2. CASE Killed(r)
      BY <2>1, <2>2 DEF Killed
    <2>3. CASE LosesAnswer(r)
      BY <2>1, <2>3 DEF LosesAnswer, Holding
    <2> QED BY <2>2, <2>3
  <1>6. broken' \in BOOLEAN /\ (~broken' => ~broken /\ ~rotates /\ run[r].at # "truncated")
    BY TypeUnfolds DEF ChainInv, LosesAnswer, Killed
  <1>7. TypeOK'
    BY <1>1, <1>2, <1>3, <1>5, <1>6, TypeUnfolds DEF ChainInv, TypeOK, RunRecords, Places, Grants, TokenBounds, host
  <1>8. OnlyCopy'
    BY <1>1, <1>3, <1>4, IdleRecord, OnlyCopyStays DEF ChainInv
  <1>9. HandsYoung'
    <2> SUFFICES ASSUME NEW q \in Runs, Holding(q)'
                 PROVE  /\ hour # "carried" => Young(q, 0)'
                        /\ missed + 1 < Life => Young(q, missed + 1)'
      BY <1>1 DEF HandsYoung, Young
    <2>1. q # r /\ Holding(q) /\ run'[q] = run[q]
      BY <1>3, <1>4
    <2>2. granted'[run[q].token] = granted[run[q].token]
      BY <1>5, <2>1 DEF ChainInv, OnlyCopy
    <2> QED BY <1>1, <2>1, <2>2 DEF ChainInv, HandsYoung, Young
  <1>10. InHandsOrFile'
    <2> SUFFICES ASSUME ~broken' PROVE InFile' \/ \E q \in Runs : InHands(q)'
      BY DEF InHandsOrFile
    <2>1. CASE InFile
      <3>1. granted'[file] = granted[file]
        BY <1>5, <1>6, <2>1 DEF InFile
      <3> QED BY <1>1, <2>1, <3>1 DEF InFile, Renews
    <2>2. CASE \E q \in Runs : InHands(q)
      <3>1. PICK q \in Runs : InHands(q)
        BY <2>2
      <3>2. q # r
        BY <1>6, <3>1 DEF InHands
      <3> QED BY <1>1, <1>3, <1>4, <3>1, <3>2 DEF InHands
    <2> QED BY <1>6, <2>1, <2>2 DEF ChainInv, InHandsOrFile
  <1> QED BY <1>7, <1>8, <1>9, <1>10 DEF ChainInv

LEMMA WipedKeeps ==
  ASSUME ChainInv, Wiped PROVE ChainInv'
PROOF
  <1>1. /\ Use("troubles") /\ file' = NoFile /\ broken' = TRUE
        /\ secret' = FALSE /\ scheduled' = FALSE /\ due' = FALSE
        /\ run' = [q \in Runs |-> Idle] /\ UNCHANGED <<rotates, granted, hour, missed>>
    BY DEF Wiped
  <1>2. left' \in [DOMAIN TokenBounds -> Nat]
    BY <1>1, UseType, BoundNames, TypeUnfolds DEF ChainInv
  <1>3. run' \in [Runs -> RunRecords] /\ \A q \in Runs : ~Holding(q)'
    BY <1>1, IdleRecord DEF Holding
  <1>4. TypeOK'
    BY <1>1, <1>2, <1>3, TypeUnfolds DEF ChainInv, TypeOK, RunRecords, Places, TokenBounds
  <1> QED BY <1>1, <1>3, <1>4 DEF ChainInv, OnlyCopy, HandsYoung, InHandsOrFile

----------------------------------------------------------------------------
\* An hour ages a token that has more than one left.
LEMMA AgedByOne ==
  ASSUME ChainInv, NEW t \in Tokens, granted[t] # Dead, granted[t].age + 1 < Life
  PROVE  /\ Aged[t] # Dead /\ Aged[t].client = granted[t].client
         /\ Aged[t].age = granted[t].age + 1
PROOF
  <1>1. granted[t] \in Grants
    BY TypeUnfolds DEF ChainInv
  <1>2. Aged[t] = [granted[t] EXCEPT !.age = @ + 1]
    BY <1>1, LifeAssumption DEF Aged, Grants
  <1>3. Aged[t] \in [client : Clients, age : Nat]
    BY <1>1, <1>2, LifeAssumption DEF Grants
  <1> QED BY <1>1, <1>2, <1>3, TokensAssumption, LifeAssumption DEF Grants

LEMMA AgedType ==
  ASSUME ChainInv PROVE Aged \in [Tokens -> Grants \cup {Dead}]
PROOF
  <1> SUFFICES ASSUME NEW t \in Tokens
               PROVE  (IF granted[t] = Dead \/ granted[t].age + 1 >= Life
                         THEN Dead
                         ELSE [granted[t] EXCEPT !.age = @ + 1]) \in Grants \cup {Dead}
    BY DEF Aged
  <1>1. CASE granted[t] = Dead
    BY <1>1
  <1>2. CASE granted[t] \in Grants
    BY <1>2, LifeAssumption DEF Grants
  <1> QED BY <1>1, <1>2, TypeUnfolds DEF ChainInv

LEMMA OneHourMore ==
  ASSUME NEW l \in Nat, NEW m \in 0 .. l, NEW n \in 0 .. l, n + 1 < l, n = m + 1 \/ n = l
  PROVE  n = m + 1 /\ m + 1 < l
OBVIOUS

\* What is held or saved grows an hour older, in an hour that was renewed or
\* counts itself missed.
LEMMA TickKeeps ==
  ASSUME ChainInv, Tick PROVE ChainInv'
PROOF
  <1>1. /\ granted' = Aged /\ due' = scheduled /\ UNCHANGED <<rotates, file, host, run, broken>>
        /\ \/ hour = "renewed" /\ missed' = missed
           \/ hour # "renewed" /\ missed = Life /\ missed' = missed
           \/ hour # "renewed" /\ missed # Life /\ missed' = missed + 1
        /\ hour' \in {"open", "carried"}
        /\ (\E r \in Runs : Holding(r)) => hour' = "carried"
        /\ left' = left \/ Use("misses")
    BY DEF Tick, HourPasses, Holding
  <1>2. missed \in 0 .. Life /\ Life \in Nat /\ missed' \in 0 .. Life
    BY <1>1, TypeUnfolds, LifeAssumption DEF ChainInv
  <1>a. ASSUME hour # "renewed", missed' + 1 < Life
        PROVE  missed' = missed + 1 /\ missed + 1 < Life
    <2>1. missed' = missed + 1 \/ missed' = Life
      BY <1>1, <1>a
    <2> QED BY <1>2, <1>a, <2>1, OneHourMore
  <1>3. \A t \in Tokens : granted[t] # Dead => granted[t].age \in Int
    BY TypeUnfolds DEF ChainInv, Grants
  <1>4. TypeOK'
    <2>1. left' \in [DOMAIN TokenBounds -> Nat]
      BY <1>1, UseType, BoundNames, TypeUnfolds DEF ChainInv
    <2>2. hour' \in {"open", "renewed", "carried"} /\ granted' \in [Tokens -> Grants \cup {Dead}]
      BY <1>1, AgedType
    <2> QED BY <1>1, <1>2, <2>1, <2>2, TypeUnfolds DEF ChainInv, TypeOK, Grants, TokenBounds, host
  <1>5. OnlyCopy'
    BY <1>1 DEF ChainInv, OnlyCopy, Holding
  <1>6. HandsYoung'
    <2> SUFFICES ASSUME NEW q \in Runs, Holding(q)', missed' + 1 < Life
                 PROVE  hour' = "carried" /\ Young(q, missed + 1)'
      BY <1>1 DEF HandsYoung, Young, Holding
    <2>1. Holding(q) /\ hour' = "carried" /\ run[q].token \in Tokens
      BY <1>1 DEF Holding, ChainInv, OnlyCopy
    <2>2. /\ hour # "carried" => Young(q, 0)
          /\ missed + 1 < Life => Young(q, missed + 1)
      BY <2>1 DEF ChainInv, HandsYoung
    <2>3. /\ granted[run[q].token] # Dead /\ granted[run[q].token].client = run[q].client
          /\ granted[run[q].token].age \in Int /\ granted[run[q].token].age <= missed'
      <3>1. CASE hour = "renewed"
        <4>1. Young(q, 0)
          BY <2>2, <3>1
        <4> QED BY <1>2, <1>3, <2>1, <4>1 DEF Young
      <3>2. CASE hour # "renewed"
        <4>1. missed' = missed + 1 /\ missed + 1 < Life
          BY <1>a, <3>2
        <4>2. Young(q, missed + 1)
          BY <2>2, <4>1
        <4> QED BY <1>3, <2>1, <4>1, <4>2 DEF Young
      <3> QED BY <3>1, <3>2
    <2>4. /\ Aged[run[q].token] # Dead /\ Aged[run[q].token].client = run[q].client
          /\ Aged[run[q].token].age <= missed' + 1
      BY <1>2, <2>1, <2>3, AgedByOne
    <2> QED BY <1>1, <2>1, <2>4 DEF Young
  <1>7. InHandsOrFile'
    <2>1. \A q \in Runs : InHands(q) => InHands(q)'
      BY <1>1 DEF InHands, Holding
    <2>2. InFile => InFile'
      <3> SUFFICES ASSUME InFile, missed' + 1 < Life PROVE Renews(file, missed + 1)'
        BY <1>1 DEF InFile, Renews
      <3>1. /\ granted[file] # Dead /\ granted[file].client = Default
            /\ granted[file].age \in Int /\ granted[file].age <= missed'
        <4>1. CASE hour = "renewed"
          BY <1>2, <1>3, <4>1 DEF InFile, Renews
        <4>2. CASE hour # "renewed"
          BY <1>1, <1>2, <1>3, <4>2 DEF InFile, Renews
        <4> QED BY <4>1, <4>2
      <3>2. /\ Aged[file] # Dead /\ Aged[file].client = Default
            /\ Aged[file].age <= missed' + 1
        BY <1>2, <3>1, AgedByOne DEF InFile
      <3> QED BY <1>1, <3>2 DEF Renews
    <2> QED BY <1>1, <2>1, <2>2 DEF ChainInv, InHandsOrFile
  <1> QED BY <1>4, <1>5, <1>6, <1>7 DEF ChainInv

----------------------------------------------------------------------------
LEMMA ChainStarts == Init => ChainInv
PROOF
  <1> SUFFICES ASSUME Init PROVE ChainInv
    OBVIOUS
  <1> DEFINE t0 == CHOOSE t \in Tokens : TRUE
  <1>1. t0 \in Tokens
    BY TokensAssumption
  <1>2. run \in [Runs -> RunRecords] /\ \A r \in Runs : ~Holding(r)
    BY IdleRecord DEF Init, Holding
  <1>3. [client |-> Default, age |-> 0] \in Grants
    BY DefaultAssumption, LifeAssumption DEF Grants
  <1>4. left \in [DOMAIN TokenBounds -> Nat]
    BY TokenBoundsAssumption DEF Init, TokenBounds
  <1>5. hour = "open" /\ missed = 0 /\ missed \in 0 .. Life
    BY LifeAssumption DEF Init
  <1>6. {rotates, secret, scheduled, due, broken} \subseteq BOOLEAN
    BY DEF Init
  <1>7. CASE file = NoFile /\ broken = TRUE /\ granted = [t \in Tokens |-> Dead]
    <2>1. TypeOK
      BY <1>2, <1>4, <1>5, <1>6, <1>7, TypeUnfolds
    <2> QED BY <1>2, <1>7, <2>1 DEF ChainInv, OnlyCopy, HandsYoung, InHandsOrFile
  <1>8. CASE /\ file = t0
             /\ granted = [t \in Tokens |-> IF t = file THEN [client |-> Default, age |-> 0] ELSE Dead]
    <2>1. TypeOK
      <3>1. granted \in [Tokens -> Grants \cup {Dead}] /\ file \in Tokens
        BY <1>1, <1>3, <1>8
      <3> QED BY <1>2, <1>4, <1>5, <1>6, <3>1, TypeUnfolds
    <2>2. granted[file] = [client |-> Default, age |-> 0]
      BY <1>1, <1>8
    <2>3. granted[file] # Dead
      BY <1>3, <2>2, TokensAssumption DEF Grants
    <2>4. Renews(file, 0) /\ Renews(file, missed + 1)
      BY <1>5, <2>2, <2>3 DEF Renews
    <2>5. InFile
      BY <1>1, <1>8, <2>4 DEF InFile
    <2> QED BY <1>2, <2>1, <2>5 DEF ChainInv, OnlyCopy, HandsYoung, InHandsOrFile
  <1> QED BY <1>7, <1>8 DEF Init

LEMMA ChainStep == ChainInv /\ [Next]_vars => ChainInv'
PROOF
  <1> SUFFICES ASSUME ChainInv, [Next]_vars PROVE ChainInv'
    OBVIOUS
  <1>1. CASE UNCHANGED vars
    <2>1. left' \in [DOMAIN TokenBounds -> Nat] /\ {secret', scheduled', due'} \subseteq BOOLEAN
      BY <1>1, TypeUnfolds DEF ChainInv, vars, host
    <2> QED BY <1>1, <2>1, NoneMoves DEF vars
  <1>2. CASE \E r \in Crons : CronFires(r)
    BY <1>2, CronKeeps
  <1>3. CASE \E r \in Shells, c \in Clients : cmd_refresh(r, c) \/ cmd_exchange(r, c)
    BY <1>3, ByHandKeeps DEF Runs
  <1>4. ASSUME NEW r \in Runs, SecretTyped(r) PROVE ChainInv'
    BY <1>4, SecretTypedKeeps
  <1>5. ASSUME NEW r \in Runs, Goes(r) PROVE ChainInv'
    BY <1>5, AnswerKeeps, EndsKeeps, TruncateKeeps, FillKeeps DEF Goes
  <1>6. ASSUME NEW r \in Runs, RequestFails(r) PROVE ChainInv'
    BY <1>6, EndsKeeps
  <1>7. ASSUME NEW r \in Runs, LosesAnswer(r) \/ Killed(r) PROVE ChainInv'
    BY <1>7, CutKeeps
  <1>8. CASE Wiped \/ PlacesSecret \/ Schedules
    BY <1>8, WipedKeeps, PlacedKeeps
  <1>9. CASE Tick
    BY <1>9, TickKeeps
  <1> QED BY <1>1, <1>2, <1>3, <1>4, <1>5, <1>6, <1>7, <1>8, <1>9 DEF Next

LEMMA InvHoldsChain == ChainInv => ChainHeld
BY DEF ChainInv, ChainHeld, InHandsOrFile, InFile, InHands, HandsYoung, Young, Holding, Renews

\* In every reachable state the token store is well typed.
THEOREM StoreTypeCorrect == Spec => []TypeOK
PROOF
  <1>1. Init => ChainInv
    BY ChainStarts
  <1>2. ChainInv => TypeOK
    BY DEF ChainInv
  <1> QED BY <1>1, <1>2, ChainStep, PTL DEF Spec

\* Whether or not the provider rotates, however many runs overlap and in
\* whatever order they read, ask and save, and however often the host is built
\* again and its secret and cron entry come back, a refresh chain nobody cut,
\* whose missed hours leave it some life, is in the file or about to be, and at
\* most an hour older than those hours.  It is cut by a rebuilt host, by a pair
\* of another app, by a run killed with the file open, and, when the provider
\* rotates, by an answer that is not saved.
THEOREM ChainIsNeverLost == Spec => []ChainHeld
PROOF
  <1>1. Init => ChainInv
    BY ChainStarts
  <1> QED BY <1>1, InvHoldsChain, ChainStep, PTL DEF Spec
=============================================================================
