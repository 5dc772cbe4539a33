---------------------------- MODULE RedeemProofs ----------------------------
(***************************************************************************)
(* Proofs about redeeming the discount, for any projects, discounts,       *)
(* number of games and length of Firestore's queue.                        *)
(***************************************************************************)
EXTENDS Redeem, SequenceTheorems, TLAPS

\* A dictionary whose codes the server has stored, each under its own project.
Known(dict, S) == \A p \in Projects : dict[p] # NoCode => dict[p] \in S /\ dict[p].project = p

\* The write keeps the dictionary it read, and Firestore remembers what it sent.
GoodPost(r, S) == Known(r.dict, S) /\ (r.sent => r.code \in S)

\* CodesAreAccepted is not inductive: an answer stores a dictionary that was read
\* long before, so the dictionaries that wait in the queue must be good too.
RedeemInv ==
    /\ TypeOK
    /\ Known(codes, accepted)
    /\ \A i \in DOMAIN posts : GoodPost(posts[i], accepted)

Posts == [code : Codes, dict : Dictionaries, heard : BOOLEAN, sent : BOOLEAN]

\* What was once stored stays in the history.
LEMMA KnownGrows ==
    ASSUME NEW dict, NEW S, NEW T, S \subseteq T, Known(dict, S)
    PROVE  Known(dict, T)
BY DEF Known

LEMMA GoodPostGrows ==
    ASSUME NEW r, NEW S, NEW T, S \subseteq T, GoodPost(r, S)
    PROVE  GoodPost(r, T)
BY KnownGrows DEF GoodPost

\* The first write of the queue, and the queue without it.
LEMMA HeadAndTail ==
    ASSUME NEW S, NEW s \in Seq(S), s # <<>>
    PROVE  /\ 1 \in DOMAIN s /\ Head(s) = s[1] /\ Head(s) \in S
           /\ Tail(s) \in Seq(S)
           /\ \A i \in DOMAIN Tail(s) : i + 1 \in DOMAIN s /\ Tail(s)[i] = s[i + 1]
BY EmptySeq, HeadTailProperties, ElementOfSeq

LEMMA RedeemInvInit == Init => RedeemInv
<1> SUFFICES ASSUME Init PROVE RedeemInv
    OBVIOUS
<1>1. TypeOK
    <2>1. 1 \in 1..MaxGames
        BY RedeemAssumption
    <2>2. codes \in Dictionaries /\ told \in Dictionaries
        BY DEF Init, Dictionaries
    <2>3. posts \in Seq(Posts)
        BY DEF Init
    <2>4. accepted \subseteq Codes /\ game \in 1..MaxGames
        BY <2>1 DEF Init
    <2>5. project \in Projects /\ screen \in {"coins", "elsewhere"} /\ network \in {"up", "down"}
        BY DEF Init
    <2>6. loaded \in BOOLEAN /\ notifier \in BOOLEAN
        BY DEF Init
    <2>7. /\ flags \in Status /\ hasNetwork \in Status /\ menu \in {"none", "this", "old"}
          /\ old \in [flags : Status, hasNetwork : Status]
        BY DEF Init, Status, NoTab
    <2> QED
        BY <2>2, <2>3, <2>4, <2>5, <2>6, <2>7 DEF TypeOK, Posts
<1>2. Known(codes, accepted)
    BY DEF Init, Known
<1>3. \A i \in DOMAIN posts : GoodPost(posts[i], accepted)
    BY DEF Init
<1> QED
    BY <1>1, <1>2, <1>3 DEF RedeemInv

\* Steps that touch neither the codes nor the queue.
LEMMA CodesUntouched ==
    ASSUME RedeemInv, TypeOK', UNCHANGED <<codes, posts, accepted>>
    PROVE  RedeemInv'
BY DEF RedeemInv

\* The first write leaves the queue and no code changes.
LEMMA QueueShrinks ==
    ASSUME RedeemInv, posts # <<>>, posts' = Tail(posts), UNCHANGED accepted
    PROVE  posts' \in Seq(Posts) /\ \A i \in DOMAIN posts' : GoodPost(posts'[i], accepted')
<1>1. posts \in Seq(Posts)
    BY DEF RedeemInv, TypeOK, Posts
<1> QED
    BY <1>1, HeadAndTail DEF RedeemInv

LEMMA RedeemInvStep == RedeemInv /\ [Next]_vars => RedeemInv'
<1> SUFFICES ASSUME RedeemInv, [Next]_vars PROVE RedeemInv'
    OBVIOUS
<1>0. TypeOK /\ posts \in Seq(Posts)
    BY DEF RedeemInv, TypeOK, Posts
<1> USE DEF menuVars
<1>1. CASE NetworkChanges
    <2>1. TypeOK'
        BY <1>0, <1>1 DEF NetworkChanges, TypeOK, defaultsVars, serverVars, Status
    <2> QED
        BY <1>1, <2>1, CodesUntouched DEF NetworkChanges, defaultsVars, serverVars
<1>2. CASE SetNetworkStatus
    <2>1. TypeOK'
        BY <1>0, <1>2 DEF SetNetworkStatus, TypeOK, defaultsVars, serverVars
    <2> QED
        BY <1>2, <2>1, CodesUntouched DEF SetNetworkStatus, defaultsVars, serverVars
<1>3. CASE OpenTab
    <2>1. TypeOK'
        BY <1>0, <1>3 DEF OpenTab, TypeOK, defaultsVars, serverVars, Status
    <2> QED
        BY <1>3, <2>1, CodesUntouched DEF OpenTab, defaultsVars, serverVars
<1>4. CASE LeaveTab
    <2>1. TypeOK'
        BY <1>0, <1>4 DEF LeaveTab, TypeOK, defaultsVars, serverVars
    <2> QED
        BY <1>4, <2>1, CodesUntouched DEF LeaveTab, defaultsVars, serverVars
<1>5. CASE OldNetworkStatus \/ OpenMenu \/ CloseMenu
    <2>1. /\ UNCHANGED <<defaultsVars, tabVars, network, serverVars, told>>
          /\ menu' \in {menu, "none", "this"}
        BY <1>5 DEF OldNetworkStatus, OpenMenu, CloseMenu, MenuGone
    <2>2. old' \in [flags : Status, hasNetwork : Status]
        BY <1>0, <1>5 DEF OldNetworkStatus, OpenMenu, CloseMenu, MenuGone, NoTab, TypeOK, Status
    <2>3. TypeOK'
        BY <1>0, <2>1, <2>2 DEF TypeOK, defaultsVars, tabVars, serverVars
    <2> QED
        BY <2>1, <2>3, CodesUntouched DEF defaultsVars, serverVars
<1>6. ASSUME NEW n \in Percentages, PostQRCodeToFirebase(n) PROVE RedeemInv'
    <2> DEFINE r == [code |-> Code(project, game, n), dict |-> codes, heard |-> TRUE,
                     sent |-> FALSE]
    <2>1. Code(project, game, n) \in Codes
        BY <1>0, <1>6 DEF Code, Codes, TypeOK
    <2>2. r \in Posts
        BY <1>0, <2>1 DEF Posts, TypeOK
    <2>3. posts' = Append(posts, r) /\ UNCHANGED <<codes, accepted>>
        BY <1>6 DEF PostQRCodeToFirebase, defaultsVars
    <2>4. posts' \in Seq(Posts)
        BY <1>0, <2>2, <2>3
    <2>5. TypeOK'
        <3>1. menu' \in {"none", "this", "old"} /\ old' \in [flags : Status, hasNetwork : Status]
            BY <1>6 DEF PostQRCodeToFirebase, MenuGone, NoTab, Status
        <3> QED
            BY <1>0, <1>6, <2>4, <3>1 DEF PostQRCodeToFirebase, TypeOK, Posts, defaultsVars, tabVars
    <2>6. GoodPost(r, accepted)
        BY DEF GoodPost, RedeemInv
    <2>7. \A i \in DOMAIN posts' : posts'[i] = r \/ (i \in DOMAIN posts /\ posts'[i] = posts[i])
        BY <1>0, <2>2, <2>3, AppendProperties
    <2>8. \A i \in DOMAIN posts' : GoodPost(posts'[i], accepted')
        BY <2>3, <2>6, <2>7 DEF RedeemInv
    <2> QED
        BY <2>3, <2>5, <2>8 DEF RedeemInv
<1>7. CASE Store
    <2>1. posts # <<>> /\ accepted' = accepted \cup {Head(posts).code} /\ UNCHANGED codes
        BY <1>7 DEF Store, defaultsVars
    <2>2. 1 \in DOMAIN posts /\ Head(posts) = posts[1] /\ posts[1] \in Posts
        BY <1>0, <2>1, HeadAndTail
    <2>3. /\ posts' \in Seq(Posts) /\ DOMAIN posts' = DOMAIN posts
          /\ posts'[1] = [posts[1] EXCEPT !.sent = TRUE]
          /\ \A i \in DOMAIN posts \ {1} : posts'[i] = posts[i]
        <3>1. posts' = [posts EXCEPT ![1] = [posts[1] EXCEPT !.sent = TRUE]]
            BY <1>7 DEF Store
        <3>2. [posts[1] EXCEPT !.sent = TRUE] \in Posts
            BY <2>2 DEF Posts
        <3> QED
            BY <1>0, <2>2, <3>1, <3>2, ExceptSeq
    <2>4. accepted' \subseteq Codes /\ accepted \subseteq accepted'
        BY <1>0, <2>1, <2>2 DEF TypeOK, Posts
    <2>5. TypeOK'
        BY <1>0, <1>7, <2>3, <2>4 DEF Store, TypeOK, Posts, defaultsVars, tabVars
    <2>6. GoodPost(posts'[1], accepted')
        <3>1. /\ posts'[1].dict = posts[1].dict /\ posts'[1].code = posts[1].code
            BY <2>2, <2>3 DEF Posts
        <3>2. Known(posts[1].dict, accepted')
            BY <2>2, <2>4, KnownGrows DEF RedeemInv, GoodPost
        <3> QED
            BY <2>1, <2>2, <3>1, <3>2 DEF GoodPost
    <2>7. \A i \in DOMAIN posts : GoodPost(posts[i], accepted')
        BY <2>4, GoodPostGrows DEF RedeemInv
    <2>8. \A i \in DOMAIN posts' : GoodPost(posts'[i], accepted')
        BY <2>3, <2>6, <2>7
    <2>9. Known(codes', accepted')
        BY <2>1, <2>4, KnownGrows DEF RedeemInv
    <2> QED
        BY <2>5, <2>8, <2>9 DEF RedeemInv
<1>8. CASE Succeed
    <2> DEFINE r == Head(posts)
    <2>1. posts # <<>> /\ r.sent /\ posts' = Tail(posts) /\ UNCHANGED accepted
        BY <1>8 DEF Succeed
    <2>2. r \in Posts /\ GoodPost(r, accepted)
        BY <1>0, <2>1, HeadAndTail DEF RedeemInv
    <2>3. /\ posts' \in Seq(Posts)
          /\ \A i \in DOMAIN posts' : GoodPost(posts'[i], accepted')
        BY <2>1, QueueShrinks
    <2>4. CASE r.heard
        <3>1. /\ codes' = [r.dict EXCEPT ![r.code.project] = r.code]
              /\ told' = [told EXCEPT ![r.code.project] = r.code]
            BY <1>8, <2>4 DEF Succeed
        <3>2. r.dict \in Dictionaries /\ r.code \in Codes /\ r.code.project \in Projects
            BY <2>2 DEF Posts, Codes
        <3>3. codes' \in Dictionaries /\ told' \in Dictionaries
            BY <1>0, <3>1, <3>2 DEF Dictionaries, TypeOK
        <3>4. TypeOK'
            BY <1>0, <1>8, <2>3, <3>3 DEF Succeed, TypeOK, Posts, tabVars
        <3>5. Known(codes', accepted')
            BY <2>1, <2>2, <3>1, <3>2 DEF Known, GoodPost, Dictionaries
        <3> QED
            BY <2>3, <3>4, <3>5 DEF RedeemInv
    <2>5. CASE ~r.heard
        <3>1. UNCHANGED <<codes, told>>
            BY <1>8, <2>5 DEF Succeed
        <3>2. TypeOK'
            BY <1>0, <1>8, <2>3, <3>1 DEF Succeed, TypeOK, Posts, tabVars
        <3> QED
            BY <2>1, <2>3, <3>1, <3>2 DEF RedeemInv
    <2> QED
        BY <2>4, <2>5
<1>9. CASE Refuse
    <2>1. posts # <<>> /\ posts' = Tail(posts) /\ UNCHANGED <<codes, accepted>>
        BY <1>9 DEF Refuse, defaultsVars
    <2>2. /\ posts' \in Seq(Posts)
          /\ \A i \in DOMAIN posts' : GoodPost(posts'[i], accepted')
        BY <2>1, QueueShrinks
    <2>3. TypeOK'
        BY <1>0, <1>9, <2>2 DEF Refuse, TypeOK, Posts, defaultsVars, tabVars
    <2> QED
        BY <2>1, <2>2, <2>3 DEF RedeemInv
<1>10. ASSUME NEW p \in Projects, StartProject(p) PROVE RedeemInv'
    <2>1. game' \in 1..MaxGames
        BY <1>0, <1>10, RedeemAssumption DEF StartProject, TypeOK
    <2>2. TypeOK'
        <3>1. menu' \in {"none", "this", "old"} /\ old' \in [flags : Status, hasNetwork : Status]
            BY <1>0, <1>10 DEF StartProject, TypeOK
        <3> QED
            BY <1>0, <1>10, <2>1, <3>1 DEF StartProject, NewTab, TypeOK, serverVars, Status
    <2> QED
        BY <1>10, <2>2, CodesUntouched DEF StartProject, serverVars
<1>11. CASE Relaunch
    <2>1. /\ posts' = [i \in DOMAIN posts |-> [posts[i] EXCEPT !.heard = FALSE]]
          /\ UNCHANGED <<codes, accepted>>
        BY <1>11 DEF Relaunch, defaultsVars
    <2>2. \A i \in DOMAIN posts :
              /\ [posts[i] EXCEPT !.heard = FALSE] \in Posts
              /\ GoodPost([posts[i] EXCEPT !.heard = FALSE], accepted)
        <3> SUFFICES ASSUME NEW i \in DOMAIN posts
                     PROVE  /\ [posts[i] EXCEPT !.heard = FALSE] \in Posts
                            /\ GoodPost([posts[i] EXCEPT !.heard = FALSE], accepted)
            OBVIOUS
        <3>1. posts[i] \in Posts
            BY <1>0, ElementOfSeq
        <3> QED
            BY <3>1 DEF Posts, GoodPost, RedeemInv
    <2>3. posts' \in Seq(Posts)
        BY <1>0, <2>1, <2>2, IsASeq, LenProperties
    <2>4. TypeOK'
        BY <1>0, <1>11, <2>3 DEF Relaunch, MenuGone, NoTab, NewTab, TypeOK, Posts, defaultsVars, Status
    <2>5. \A i \in DOMAIN posts' : GoodPost(posts'[i], accepted')
        BY <2>1, <2>2
    <2> QED
        BY <2>1, <2>4, <2>5 DEF RedeemInv
<1>12. CASE UNCHANGED vars
    BY <1>12 DEF vars, defaultsVars, tabVars, serverVars, RedeemInv, TypeOK
<1> QED
    BY <1>1, <1>2, <1>3, <1>4, <1>5, <1>6, <1>7, <1>8, <1>9, <1>10, <1>11, <1>12 DEF Next

\* The inductive invariant of redeeming: types, and no unknown code in the
\* dictionary or in one that postQRCodeToFirebase has read and not yet stored.
THEOREM RedeemInvariant == Spec => []RedeemInv
BY RedeemInvInit, RedeemInvStep, PTL DEF Spec

\* The types of redeeming: defaults, coin tab, Firestore's queue and the server.
THEOREM RedeemTypeCorrect == Spec => []TypeOK
<1>1. RedeemInv => TypeOK
    BY DEF RedeemInv
<1> QED
    BY <1>1, RedeemInvariant, PTL

\* A code that "inspect" shows is one the server has stored, for the project it is
\* shown under, however the answers to FirebaseService.post are ordered.
THEOREM CodesAlwaysAccepted == Spec => []CodesAreAccepted
<1>1. RedeemInv => CodesAreAccepted
    BY DEF RedeemInv, Known, CodesAreAccepted
<1> QED
    BY <1>1, RedeemInvariant, PTL
=============================================================================
