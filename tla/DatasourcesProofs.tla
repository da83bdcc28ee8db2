------------------------- MODULE DatasourcesProofs -------------------------
(***************************************************************************)
(* Links and copies of a datasource agree for any number of services and   *)
(* requests, however they overlap.                                         *)
(***************************************************************************)
EXTENDS Datasources, TLAPS

(* The two halves of TypeOK: where requests are, and everything else. *)
RequestTypes ==
  /\ pc \in [Requests -> {"start", "persisting", "querying",
                          "sending", "recording", "committing", "done"}]
  /\ held \in [Requests -> Credentials \cup {None}]
  /\ todo \in [Requests -> SUBSET Services]
  /\ at \in [Requests -> Services \cup {None}]

DataTypes ==
  /\ creds \in Credentials \cup {None}
  /\ {status, verdict} \subseteq {"connected", "offline"}
  /\ links \subseteq Services
  /\ pod \in [Services -> Credentials \cup {None}]
  /\ leaving \subseteq {s \in Services : pod[s] # None}
  /\ required \subseteq Rotations
  /\ job \in {"idle", "writing"}
  /\ unsure \subseteq Services /\ stale \subseteq Services
  /\ kept \subseteq Updates
  /\ mishaps \in 0..MaxMishaps

(* Where a request is says what it holds. *)
Places ==
  /\ \A r \in Requests :
       /\ at[r] # None => at[r] \in todo[r]
       /\ pc[r] \in {"start", "done"} => at[r] = None /\ todo[r] = {}
  /\ \A u \in Updates :
       /\ pc[u] \in {"start", "persisting", "querying", "sending", "done"}
       /\ pc[u] \in {"persisting", "querying", "sending"} =>
            held[u] # None /\ u \in held[u]
       /\ pc[u] \in {"persisting", "querying"} => at[u] = None /\ todo[u] = {}
  /\ \A r \in Connects \cup Disconnects :
       /\ pc[r] \in {"start", "sending", "recording", "done"}
       /\ at[r] # None <=> pc[r] = "recording"
  /\ \A k \in Connects :
       pc[k] \in {"sending", "recording"} => held[k] # None
  /\ \A x \in Deletes :
       pc[x] \in {"start", "committing", "done"} /\ at[x] = None /\ todo[x] = {}

(* Nobody knows an update before it is written. *)
Fresh ==
  \A u \in Updates : pc[u] \in {"start", "persisting"} =>
    /\ creds # None => u \notin creds
    /\ \A q \in Requests \ {u} : held[q] # None => u \notin held[q]

Posting(s) == \E k \in Connects : at[k] = s
Detached(s) == \E d \in Disconnects : at[d] = s

(* Links and pods, while requests are under way. *)
LinksHold ==
  \A s \in Services \ unsure :
    /\ s \in links /\ ~Detached(s) => Serves(s)
    /\ Serves(s) => s \in links \/ Posting(s)
    /\ Detached(s) => ~Serves(s)
    /\ Posting(s) => Serves(s)
    /\ Deleting => s \notin links

(* Someone still has to bring s the credentials of the row, or to note that
   it brings older ones. *)
Owes(u, s) ==
  /\ held[u] = creds /\ pc[u] \in {"querying", "sending"}
  /\ pc[u] = "sending" => s \in todo[u]
Late(s) == \E k \in Connects : at[k] = s /\ held[k] # creds

CopiesHold ==
  creds # None =>
    \A s \in Services \ (unsure \cup stale) : Serves(s) =>
      \/ pod[s] = creds
      \/ Late(s)
      \/ s \in links /\ \E u \in Updates : Owes(u, s)

(* Who is about to write has read what must not get lost. *)
KeptHold ==
  /\ UpdatesAreKept
  /\ \A u \in Updates : pc[u] = "persisting" => kept \subseteq held[u]

IInv == TypeOK /\ Places /\ Fresh /\ LinksHold /\ CopiesHold /\ KeptHold
-----------------------------------------------------------------------------
(* TypeOK is its two halves. *)
LEMMA TypeHalves == TypeOK <=> RequestTypes /\ DataTypes
BY DEF TypeOK, RequestTypes, DataTypes

(* A request that answers, or goes on to the next service, is typed. *)
LEMMA AnswerTypes ==
  ASSUME RequestTypes, NEW r \in Requests, Answer(r)
  PROVE  RequestTypes'
BY DEF RequestTypes, Answer, GoTo

LEMMA ForwardTypes ==
  ASSUME RequestTypes, NEW r \in Requests, NEW s, Forward(r, s)
  PROVE  RequestTypes'
<1>1. CASE todo[r] = {s}
  BY <1>1, AnswerTypes DEF Forward
<1>2. CASE todo[r] # {s}
  BY <1>2 DEF RequestTypes, Forward, GoTo
<1> QED BY <1>1, <1>2

(* Each step keeps the requests typed. *)
LEMMA RequestTypesStep ==
  RequestTypes /\ DataTypes /\ [Next]_vars => RequestTypes'
<1> SUFFICES ASSUME RequestTypes, DataTypes, [Next]_vars PROVE RequestTypes'
  OBVIOUS
<1> USE DEF vars, row, requests, jobVars, history
<1>a. /\ Updates \subseteq Requests /\ Connects \subseteq Requests
      /\ Disconnects \subseteq Requests /\ Deletes \subseteq Requests
  BY DEF Requests
<1>1. ASSUME NEW u \in Updates, UpdateLoad(u) PROVE RequestTypes'
  BY <1>1, <1>a DEF UpdateLoad, RequestTypes, GoTo, DataTypes, Starts, Credentials
<1>2. ASSUME NEW u \in Updates, Persist(u) PROVE RequestTypes'
  BY <1>2, <1>a DEF Persist, RequestTypes, RowWritten
<1>3. ASSUME NEW u \in Updates, Query(u) PROVE RequestTypes'
  BY <1>3, <1>a, AnswerTypes DEF Query, RequestTypes, GoTo, DataTypes
<1>4. ASSUME NEW u \in Updates, Put(u) PROVE RequestTypes'
  BY <1>4, <1>a, ForwardTypes DEF Put, RequestTypes
<1>5. ASSUME NEW u \in Updates, PutFails(u) PROVE RequestTypes'
  <2>1. PICK s \in Turn(u) :
          IF at[u] = None
          THEN at' = [at EXCEPT ![u] = s] /\ UNCHANGED <<pc, held, todo>>
          ELSE Forward(u, s)
    BY <1>5 DEF PutFails
  <2>2. CASE at[u] = None
    BY <2>1, <2>2, <1>5, <1>a DEF PutFails, RequestTypes, Turn
  <2>3. CASE at[u] # None
    BY <2>1, <2>3, <1>a, ForwardTypes
  <2> QED BY <2>2, <2>3
<1>6. ASSUME NEW u \in Updates, Rotate(u) PROVE RequestTypes'
  BY <1>6, <1>a DEF Rotate, RequestTypes
<1>7. ASSUME NEW k \in Connects, ConnectLoad(k) PROVE RequestTypes'
  BY <1>7, <1>a DEF ConnectLoad, RequestTypes, GoTo, DataTypes
<1>8. ASSUME NEW k \in Connects, Post(k) PROVE RequestTypes'
  BY <1>8, <1>a DEF Post, RequestTypes, GoTo
<1>9. ASSUME NEW k \in Connects, PostFails(k) PROVE RequestTypes'
  BY <1>9, <1>a, AnswerTypes DEF PostFails, RequestTypes
<1>10. ASSUME NEW k \in Connects, Record(k) PROVE RequestTypes'
  BY <1>10, <1>a, ForwardTypes DEF Record, RequestTypes
<1>11. ASSUME NEW d \in Disconnects, DisconnectLoad(d) PROVE RequestTypes'
  BY <1>11, <1>a DEF DisconnectLoad, RequestTypes, GoTo, DataTypes
<1>12. ASSUME NEW d \in Disconnects, Detach(d) PROVE RequestTypes'
  BY <1>12, <1>a DEF Detach, RequestTypes, GoTo
<1>13. ASSUME NEW d \in Disconnects, DetachFails(d) PROVE RequestTypes'
  BY <1>13, <1>a, AnswerTypes DEF DetachFails, RequestTypes
<1>14. ASSUME NEW d \in Disconnects, Remove(d) PROVE RequestTypes'
  BY <1>14, <1>a, ForwardTypes DEF Remove, RequestTypes
<1>15. ASSUME NEW x \in Deletes, Guard(x) PROVE RequestTypes'
  BY <1>15, <1>a DEF Guard, RequestTypes, GoTo
<1>16. ASSUME NEW x \in Deletes, Commit(x) PROVE RequestTypes'
  BY <1>16, <1>a DEF Commit, RequestTypes, RowWritten
<1>17. ASSUME NEW r \in Requests, Refuse(r) PROVE RequestTypes'
  BY <1>17, <1>a, AnswerTypes DEF Refuse, RequestTypes
<1>18. ASSUME NEW s \in Services, PodDrops(s) PROVE RequestTypes'
  BY <1>18, <1>a DEF PodDrops, RequestTypes
<1>19. CASE JobTest
  BY <1>19, <1>a DEF JobTest, RequestTypes
<1>20. CASE JobWrite
  BY <1>20, <1>a DEF JobWrite, RequestTypes, RowWritten
<1>21. CASE Restart
  BY <1>21, <1>a DEF Restart, RequestTypes
<1>22. CASE UNCHANGED vars
  BY <1>22 DEF RequestTypes
<1> QED BY <1>1, <1>2, <1>3, <1>4, <1>5, <1>6, <1>7, <1>8, <1>9, <1>10,
  <1>11, <1>12, <1>13, <1>14, <1>15, <1>16, <1>17, <1>18, <1>19, <1>20,
  <1>21, <1>22 DEF Next, JobStep

(* Each step keeps the rows, pods and history typed: a PUT or POST carries
   credentials, which Places says. *)
LEMMA DataTypesStep ==
  RequestTypes /\ DataTypes /\ Places /\ [Next]_vars => DataTypes'
<1> SUFFICES ASSUME RequestTypes, DataTypes, Places, [Next]_vars
             PROVE  DataTypes'
  OBVIOUS
<1> USE DatasourcesAssumption DEF vars, row, requests, jobVars, history
<1>a. /\ Updates \subseteq Requests /\ Connects \subseteq Requests
      /\ Disconnects \subseteq Requests /\ Deletes \subseteq Requests
  BY DEF Requests
<1>1. ASSUME NEW u \in Updates, UpdateLoad(u) PROVE DataTypes'
  BY <1>1, <1>a DEF UpdateLoad, Starts, DataTypes, RequestTypes, Places
<1>2. ASSUME NEW u \in Updates, Persist(u) PROVE DataTypes'
  BY <1>2, <1>a DEF Persist, DataTypes, RequestTypes, Places
<1>3. ASSUME NEW u \in Updates, Query(u) PROVE DataTypes'
  BY <1>3, <1>a DEF Query, Mishap, DataTypes, RequestTypes, Places
<1>4. ASSUME NEW u \in Updates, Put(u) PROVE DataTypes'
  BY <1>4, <1>a DEF Put, Turn, Serves, Mark, DataTypes, RequestTypes, Places
<1>5. ASSUME NEW u \in Updates, PutFails(u) PROVE DataTypes'
  BY <1>5, <1>a DEF PutFails, Mishap, Turn, Serves, Mark, DataTypes,
    RequestTypes, Places
<1>6. ASSUME NEW u \in Updates, Rotate(u) PROVE DataTypes'
  BY <1>6, <1>a DEF Rotate, DataTypes, RequestTypes, Places
<1>7. ASSUME NEW k \in Connects, ConnectLoad(k) PROVE DataTypes'
  BY <1>7, <1>a DEF ConnectLoad, Starts, DataTypes, RequestTypes, Places
<1>8. ASSUME NEW k \in Connects, Post(k) PROVE DataTypes'
  BY <1>8, <1>a DEF Post, Mark, DataTypes, RequestTypes, Places
<1>9. ASSUME NEW k \in Connects, PostFails(k) PROVE DataTypes'
  BY <1>9, <1>a DEF PostFails, Mishap, Mark, DataTypes, RequestTypes, Places
<1>10. ASSUME NEW k \in Connects, Record(k) PROVE DataTypes'
  BY <1>10, <1>a DEF Record, Mishap, DataTypes, RequestTypes, Places
<1>11. ASSUME NEW d \in Disconnects, DisconnectLoad(d) PROVE DataTypes'
  BY <1>11, <1>a DEF DisconnectLoad, Starts, DataTypes, RequestTypes, Places
<1>12. ASSUME NEW d \in Disconnects, Detach(d) PROVE DataTypes'
  BY <1>12, <1>a DEF Detach, Leave, DataTypes, RequestTypes, Places
<1>13. ASSUME NEW d \in Disconnects, DetachFails(d) PROVE DataTypes'
  BY <1>13, <1>a DEF DetachFails, Mishap, Leave, DataTypes, RequestTypes,
    Places
<1>14. ASSUME NEW d \in Disconnects, Remove(d) PROVE DataTypes'
  BY <1>14, <1>a DEF Remove, Mishap, DataTypes, RequestTypes, Places
<1>15. ASSUME NEW x \in Deletes, Guard(x) PROVE DataTypes'
  BY <1>15, <1>a DEF Guard, Starts, DataTypes, RequestTypes, Places
<1>16. ASSUME NEW x \in Deletes, Commit(x) PROVE DataTypes'
  BY <1>16, <1>a DEF Commit, DataTypes, RequestTypes, Places
<1>17. ASSUME NEW r \in Requests, Refuse(r) PROVE DataTypes'
  BY <1>17, <1>a DEF Refuse, DataTypes, RequestTypes, Places
<1>18. ASSUME NEW s \in Services, PodDrops(s) PROVE DataTypes'
  BY <1>18, <1>a DEF PodDrops, DataTypes, RequestTypes, Places
<1>19. CASE JobTest
  BY <1>19, <1>a DEF JobTest, Mishap, DataTypes, RequestTypes, Places
<1>20. CASE JobWrite
  BY <1>20, <1>a DEF JobWrite, Mishap, DataTypes, RequestTypes, Places
<1>21. CASE Restart
  BY <1>21, <1>a DEF Restart, Mishap, DataTypes, RequestTypes, Places
<1>22. CASE UNCHANGED vars
  BY <1>22 DEF DataTypes
<1> QED BY <1>1, <1>2, <1>3, <1>4, <1>5, <1>6, <1>7, <1>8, <1>9, <1>10,
  <1>11, <1>12, <1>13, <1>14, <1>15, <1>16, <1>17, <1>18, <1>19, <1>20,
  <1>21, <1>22 DEF Next, JobStep

(* The requests keep to their places. *)
LEMMA PlacesStep == TypeOK /\ Places /\ [Next]_vars => Places'
<1> SUFFICES ASSUME TypeOK, Places, [Next]_vars PROVE Places'
  OBVIOUS
<1> USE DatasourcesAssumption DEF TypeOK, Places, Requests, vars, row,
  requests, jobVars, history
<1>1. ASSUME NEW u \in Updates, UpdateLoad(u) PROVE Places'
  <2>1. creds \cup {u} # None /\ u \in creds \cup {u}
    BY <1>1 DEF UpdateLoad, Starts, Credentials
  <2> QED
    BY <1>1, <2>1 DEF UpdateLoad, GoTo, Starts
<1>2. ASSUME NEW u \in Updates, Persist(u) PROVE Places'
  BY <1>2 DEF Persist, RowWritten
<1>3. ASSUME NEW u \in Updates, Query(u) PROVE Places'
  BY <1>3 DEF Query, GoTo, Answer, Mishap
<1>4. ASSUME NEW u \in Updates, Put(u) PROVE Places'
  BY <1>4 DEF Put, GoTo, Answer, Forward, Turn, Serves, Mark
<1>5. ASSUME NEW u \in Updates, PutFails(u) PROVE Places'
  BY <1>5 DEF PutFails, GoTo, Answer, Forward, Mishap, Turn, Serves, Mark
<1>6. ASSUME NEW u \in Updates, Rotate(u) PROVE Places'
  BY <1>6 DEF Rotate
<1>7. ASSUME NEW k \in Connects, ConnectLoad(k) PROVE Places'
  BY <1>7 DEF ConnectLoad, GoTo, Starts, InFlight
<1>8. ASSUME NEW k \in Connects, Post(k) PROVE Places'
  BY <1>8 DEF Post, GoTo, Mark
<1>9. ASSUME NEW k \in Connects, PostFails(k) PROVE Places'
  BY <1>9 DEF PostFails, GoTo, Answer, Mishap, Mark
<1>10. ASSUME NEW k \in Connects, Record(k) PROVE Places'
  BY <1>10 DEF Record, GoTo, Answer, Forward, Mishap, Deleting
<1>11. ASSUME NEW d \in Disconnects, DisconnectLoad(d) PROVE Places'
  BY <1>11 DEF DisconnectLoad, GoTo, Starts, InFlight
<1>12. ASSUME NEW d \in Disconnects, Detach(d) PROVE Places'
  BY <1>12 DEF Detach, GoTo, Leave
<1>13. ASSUME NEW d \in Disconnects, DetachFails(d) PROVE Places'
  BY <1>13 DEF DetachFails, GoTo, Answer, Mishap, Leave
<1>14. ASSUME NEW d \in Disconnects, Remove(d) PROVE Places'
  BY <1>14 DEF Remove, GoTo, Answer, Forward, Mishap
<1>15. ASSUME NEW x \in Deletes, Guard(x) PROVE Places'
  BY <1>15 DEF Guard, GoTo, Starts, InFlight
<1>16. ASSUME NEW x \in Deletes, Commit(x) PROVE Places'
  BY <1>16 DEF Commit, RowWritten
<1>17. ASSUME NEW r \in Requests, Refuse(r) PROVE Places'
  BY <1>17 DEF Refuse, GoTo, Answer
<1>18. ASSUME NEW s \in Services, PodDrops(s) PROVE Places'
  BY <1>18 DEF PodDrops
<1>19. CASE JobTest
  BY <1>19 DEF JobTest, Mishap
<1>20. CASE JobWrite
  BY <1>20 DEF JobWrite, RowWritten, Mishap
<1>21. CASE Restart
  BY <1>21 DEF Restart, InFlight, Mishap
<1>22. CASE UNCHANGED vars
  BY <1>22
<1> QED BY <1>1, <1>2, <1>3, <1>4, <1>5, <1>6, <1>7, <1>8, <1>9, <1>10,
  <1>11, <1>12, <1>13, <1>14, <1>15, <1>16, <1>17, <1>18, <1>19, <1>20,
  <1>21, <1>22 DEF Next, JobStep

(* An update is known to nobody else until it is written. *)
LEMMA FreshStep == TypeOK /\ Places /\ Fresh /\ [Next]_vars => Fresh'
<1> SUFFICES ASSUME TypeOK, Places, Fresh, [Next]_vars PROVE Fresh'
  OBVIOUS
<1> USE DatasourcesAssumption DEF TypeOK, Places, Fresh, Requests, vars, row,
  requests, jobVars, history
<1>1. ASSUME NEW u \in Updates, UpdateLoad(u) PROVE Fresh'
  BY <1>1 DEF UpdateLoad, GoTo, Starts, InFlight
<1>2. ASSUME NEW u \in Updates, Persist(u) PROVE Fresh'
  BY <1>2 DEF Persist, RowWritten
<1>3. ASSUME NEW u \in Updates, Query(u) PROVE Fresh'
  BY <1>3 DEF Query, GoTo, Answer, Mishap
<1>4. ASSUME NEW u \in Updates, Put(u) PROVE Fresh'
  BY <1>4 DEF Put, GoTo, Answer, Forward, Turn, Serves, Mark
<1>5. ASSUME NEW u \in Updates, PutFails(u) PROVE Fresh'
  BY <1>5 DEF PutFails, GoTo, Answer, Forward, Mishap, Turn, Serves, Mark
<1>6. ASSUME NEW u \in Updates, Rotate(u) PROVE Fresh'
  BY <1>6 DEF Rotate
<1>7. ASSUME NEW k \in Connects, ConnectLoad(k) PROVE Fresh'
  BY <1>7 DEF ConnectLoad, GoTo, Starts, InFlight
<1>8. ASSUME NEW k \in Connects, Post(k) PROVE Fresh'
  BY <1>8 DEF Post, GoTo, Mark
<1>9. ASSUME NEW k \in Connects, PostFails(k) PROVE Fresh'
  BY <1>9 DEF PostFails, GoTo, Answer, Mishap, Mark
<1>10. ASSUME NEW k \in Connects, Record(k) PROVE Fresh'
  BY <1>10 DEF Record, GoTo, Answer, Forward, Mishap, Deleting
<1>11. ASSUME NEW d \in Disconnects, DisconnectLoad(d) PROVE Fresh'
  BY <1>11 DEF DisconnectLoad, GoTo, Starts, InFlight
<1>12. ASSUME NEW d \in Disconnects, Detach(d) PROVE Fresh'
  BY <1>12 DEF Detach, GoTo, Leave
<1>13. ASSUME NEW d \in Disconnects, DetachFails(d) PROVE Fresh'
  BY <1>13 DEF DetachFails, GoTo, Answer, Mishap, Leave
<1>14. ASSUME NEW d \in Disconnects, Remove(d) PROVE Fresh'
  BY <1>14 DEF Remove, GoTo, Answer, Forward, Mishap
<1>15. ASSUME NEW x \in Deletes, Guard(x) PROVE Fresh'
  BY <1>15 DEF Guard, GoTo, Starts, InFlight
<1>16. ASSUME NEW x \in Deletes, Commit(x) PROVE Fresh'
  BY <1>16 DEF Commit, RowWritten
<1>17. ASSUME NEW r \in Requests, Refuse(r) PROVE Fresh'
  BY <1>17 DEF Refuse, GoTo, Answer
<1>18. ASSUME NEW s \in Services, PodDrops(s) PROVE Fresh'
  BY <1>18 DEF PodDrops
<1>19. CASE JobTest
  BY <1>19 DEF JobTest, Mishap
<1>20. CASE JobWrite
  BY <1>20 DEF JobWrite, RowWritten, Mishap
<1>21. CASE Restart
  BY <1>21 DEF Restart, InFlight, Mishap
<1>22. CASE UNCHANGED vars
  BY <1>22
<1> QED BY <1>1, <1>2, <1>3, <1>4, <1>5, <1>6, <1>7, <1>8, <1>9, <1>10,
  <1>11, <1>12, <1>13, <1>14, <1>15, <1>16, <1>17, <1>18, <1>19, <1>20,
  <1>21, <1>22 DEF Next, JobStep

(* Links and pods stay in step, the services in unsure excepted. *)
LEMMA LinksStep == TypeOK /\ Places /\ LinksHold /\ [Next]_vars => LinksHold'
<1> SUFFICES ASSUME TypeOK, Places, LinksHold, [Next]_vars PROVE LinksHold'
  OBVIOUS
<1> USE DatasourcesAssumption DEF TypeOK, Places, LinksHold, Requests, vars,
  row, requests, jobVars, history
<1>1. ASSUME NEW u \in Updates, UpdateLoad(u) PROVE LinksHold'
  BY <1>1 DEF UpdateLoad, GoTo, Starts, InFlight, Posting, Detached, Serves,
    Deleting
<1>2. ASSUME NEW u \in Updates, Persist(u) PROVE LinksHold'
  BY <1>2 DEF Persist, RowWritten, Posting, Detached, Serves, Deleting
<1>3. ASSUME NEW u \in Updates, Query(u) PROVE LinksHold'
  BY <1>3 DEF Query, GoTo, Answer, Mishap, Posting, Detached, Serves,
    Deleting
<1>4. ASSUME NEW u \in Updates, Put(u) PROVE LinksHold'
  BY <1>4 DEF Put, GoTo, Answer, Forward, Turn, Serves, Mark, Posting,
    Detached, Deleting
<1>5. ASSUME NEW u \in Updates, PutFails(u) PROVE LinksHold'
  BY <1>5 DEF PutFails, GoTo, Answer, Forward, Mishap, Turn, Serves, Mark,
    Posting, Detached, Deleting
<1>6. ASSUME NEW u \in Updates, Rotate(u) PROVE LinksHold'
  BY <1>6 DEF Rotate, Posting, Detached, Serves, Deleting
<1>7. ASSUME NEW k \in Connects, ConnectLoad(k) PROVE LinksHold'
  BY <1>7 DEF ConnectLoad, GoTo, Starts, InFlight, Posting, Detached, Serves,
    Deleting
<1>8. ASSUME NEW k \in Connects, Post(k) PROVE LinksHold'
  BY <1>8 DEF Post, GoTo, Mark, Posting, Detached, Serves, Deleting
<1>9. ASSUME NEW k \in Connects, PostFails(k) PROVE LinksHold'
  BY <1>9 DEF PostFails, GoTo, Answer, Mishap, Mark, Posting, Detached,
    Serves, Deleting
<1>10. ASSUME NEW k \in Connects, Record(k) PROVE LinksHold'
  BY <1>10 DEF Record, GoTo, Answer, Forward, Mishap, Deleting, Posting,
    Detached, Serves
<1>11. ASSUME NEW d \in Disconnects, DisconnectLoad(d) PROVE LinksHold'
  BY <1>11 DEF DisconnectLoad, GoTo, Starts, InFlight, Posting, Detached,
    Serves, Deleting
<1>12. ASSUME NEW d \in Disconnects, Detach(d) PROVE LinksHold'
  BY <1>12 DEF Detach, GoTo, Leave, Posting, Detached, Serves, Deleting
<1>13. ASSUME NEW d \in Disconnects, DetachFails(d) PROVE LinksHold'
  BY <1>13 DEF DetachFails, GoTo, Answer, Mishap, Leave, Posting, Detached,
    Serves, Deleting
<1>14. ASSUME NEW d \in Disconnects, Remove(d) PROVE LinksHold'
  BY <1>14 DEF Remove, GoTo, Answer, Forward, Mishap, Posting, Detached,
    Serves, Deleting
<1>15. ASSUME NEW x \in Deletes, Guard(x) PROVE LinksHold'
  BY <1>15 DEF Guard, GoTo, Starts, InFlight, Posting, Detached, Serves,
    Deleting
<1>16. ASSUME NEW x \in Deletes, Commit(x) PROVE LinksHold'
  BY <1>16 DEF Commit, RowWritten, Posting, Detached, Serves, Deleting
<1>17. ASSUME NEW r \in Requests, Refuse(r) PROVE LinksHold'
  BY <1>17 DEF Refuse, GoTo, Answer, Posting, Detached, Serves, Deleting
<1>18. ASSUME NEW s \in Services, PodDrops(s) PROVE LinksHold'
  BY <1>18 DEF PodDrops, Posting, Detached, Serves, Deleting
<1>19. CASE JobTest
  BY <1>19 DEF JobTest, Mishap, Posting, Detached, Serves, Deleting
<1>20. CASE JobWrite
  BY <1>20 DEF JobWrite, RowWritten, Mishap, Posting, Detached, Serves,
    Deleting
<1>21. CASE Restart
  BY <1>21 DEF Restart, InFlight, Mishap, Posting, Detached, Serves, Deleting
<1>22. CASE UNCHANGED vars
  BY <1>22 DEF Posting, Detached, Serves, Deleting
<1> QED BY <1>1, <1>2, <1>3, <1>4, <1>5, <1>6, <1>7, <1>8, <1>9, <1>10,
  <1>11, <1>12, <1>13, <1>14, <1>15, <1>16, <1>17, <1>18, <1>19, <1>20,
  <1>21, <1>22 DEF Next, JobStep

(* When an update writes the row, every linked pod is owed the outcome, and a
   connect that is between its POST and its link holds older credentials. *)
LEMMA CopiesStep == TypeOK /\ Places /\ Fresh /\ LinksHold /\ CopiesHold /\ [Next]_vars => CopiesHold'
<1> SUFFICES ASSUME TypeOK, Places, Fresh, LinksHold, CopiesHold, [Next]_vars PROVE CopiesHold'
  OBVIOUS
<1> USE DatasourcesAssumption DEF TypeOK, Places, CopiesHold, Requests, vars,
  row, requests, jobVars, history
<1>1. ASSUME NEW u \in Updates, UpdateLoad(u) PROVE CopiesHold'
  BY <1>1 DEF UpdateLoad, GoTo, Starts, InFlight, Posting, Detached, Serves,
    Owes, Late, Fresh, LinksHold
<1>2. ASSUME NEW u \in Updates, Persist(u) PROVE CopiesHold'
  BY <1>2 DEF Persist, RowWritten, Posting, Detached, Serves, Owes, Late,
    Fresh, LinksHold
<1>3. ASSUME NEW u \in Updates, Query(u) PROVE CopiesHold'
  BY <1>3 DEF Query, GoTo, Answer, Mishap, Posting, Detached, Serves, Owes,
    Late, Fresh, LinksHold
<1>4. ASSUME NEW u \in Updates, Put(u) PROVE CopiesHold'
  BY <1>4 DEF Put, GoTo, Answer, Forward, Turn, Serves, Mark, Posting,
    Detached, Owes, Late, Fresh, LinksHold
<1>5. ASSUME NEW u \in Updates, PutFails(u) PROVE CopiesHold'
  BY <1>5 DEF PutFails, GoTo, Answer, Forward, Mishap, Turn, Serves, Mark,
    Posting, Detached, Owes, Late, Fresh, LinksHold
<1>6. ASSUME NEW u \in Updates, Rotate(u) PROVE CopiesHold'
  BY <1>6 DEF Rotate, Posting, Detached, Serves, Owes, Late, Fresh, LinksHold
<1>7. ASSUME NEW k \in Connects, ConnectLoad(k) PROVE CopiesHold'
  BY <1>7 DEF ConnectLoad, GoTo, Starts, InFlight, Posting, Detached, Serves,
    Owes, Late, Fresh, LinksHold
<1>8. ASSUME NEW k \in Connects, Post(k) PROVE CopiesHold'
  BY <1>8 DEF Post, GoTo, Mark, Posting, Detached, Serves, Owes, Late, Fresh,
    LinksHold
<1>9. ASSUME NEW k \in Connects, PostFails(k) PROVE CopiesHold'
  BY <1>9 DEF PostFails, GoTo, Answer, Mishap, Mark, Posting, Detached,
    Serves, Owes, Late, Fresh, LinksHold
<1>10. ASSUME NEW k \in Connects, Record(k) PROVE CopiesHold'
  BY <1>10 DEF Record, GoTo, Answer, Forward, Mishap, Deleting, Posting,
    Detached, Serves, Owes, Late, Fresh, LinksHold
<1>11. ASSUME NEW d \in Disconnects, DisconnectLoad(d) PROVE CopiesHold'
  BY <1>11 DEF DisconnectLoad, GoTo, Starts, InFlight, Posting, Detached,
    Serves, Owes, Late, Fresh, LinksHold
<1>12. ASSUME NEW d \in Disconnects, Detach(d) PROVE CopiesHold'
  BY <1>12 DEF Detach, GoTo, Leave, Posting, Detached, Serves, Owes, Late,
    Fresh, LinksHold
<1>13. ASSUME NEW d \in Disconnects, DetachFails(d) PROVE CopiesHold'
  BY <1>13 DEF DetachFails, GoTo, Answer, Mishap, Leave, Posting, Detached,
    Serves, Owes, Late, Fresh, LinksHold
<1>14. ASSUME NEW d \in Disconnects, Remove(d) PROVE CopiesHold'
  BY <1>14 DEF Remove, GoTo, Answer, Forward, Mishap, Posting, Detached,
    Serves, Owes, Late, Fresh, LinksHold
<1>15. ASSUME NEW x \in Deletes, Guard(x) PROVE CopiesHold'
  BY <1>15 DEF Guard, GoTo, Starts, InFlight, Posting, Detached, Serves,
    Owes, Late, Fresh, LinksHold
<1>16. ASSUME NEW x \in Deletes, Commit(x) PROVE CopiesHold'
  BY <1>16 DEF Commit, RowWritten, Posting, Detached, Serves, Owes, Late,
    Fresh, LinksHold
<1>17. ASSUME NEW r \in Requests, Refuse(r) PROVE CopiesHold'
  BY <1>17 DEF Refuse, GoTo, Answer, Posting, Detached, Serves, Owes, Late,
    Fresh, LinksHold
<1>18. ASSUME NEW s \in Services, PodDrops(s) PROVE CopiesHold'
  BY <1>18 DEF PodDrops, Posting, Detached, Serves, Owes, Late, Fresh,
    LinksHold
<1>19. CASE JobTest
  BY <1>19 DEF JobTest, Mishap, Posting, Detached, Serves, Owes, Late, Fresh,
    LinksHold
<1>20. CASE JobWrite
  BY <1>20 DEF JobWrite, RowWritten, Mishap, Posting, Detached, Serves, Owes,
    Late, Fresh, LinksHold
<1>21. CASE Restart
  <2> SUFFICES ASSUME creds # None, NEW s \in Services \ unsure', s \notin stale,
                      Serves(s), pod[s] # creds
               PROVE  FALSE
    BY <1>21 DEF Restart, Serves
  <2>1. ASSUME NEW k \in Connects, at[k] = s PROVE FALSE
    BY <2>1, <1>21 DEF Restart
  <2>2. ASSUME NEW u \in Updates, Owes(u, s), s \in links PROVE FALSE
    BY <2>2, <1>21 DEF Restart, Owes
  <2>3. s \notin unsure
    BY <1>21 DEF Restart
  <2> QED
    BY <2>1, <2>2, <2>3 DEF Late
<1>22. CASE UNCHANGED vars
  BY <1>22 DEF Posting, Detached, Serves, Owes, Late, Fresh, LinksHold
<1> QED BY <1>1, <1>2, <1>3, <1>4, <1>5, <1>6, <1>7, <1>8, <1>9, <1>10,
  <1>11, <1>12, <1>13, <1>14, <1>15, <1>16, <1>17, <1>18, <1>19, <1>20,
  <1>21, <1>22 DEF Next, JobStep

-----------------------------------------------------------------------------
(* The credentials change in Persist and Commit only, and what an update is
   about to write in UpdateLoad only. *)
LEMMA KeptStep == TypeOK /\ Places /\ KeptHold /\ [Next]_vars => KeptHold'
<1> SUFFICES ASSUME TypeOK, Places, KeptHold, [Next]_vars PROVE KeptHold'
  OBVIOUS
<1> USE DatasourcesAssumption DEF KeptHold, UpdatesAreKept, vars, row,
  requests, jobVars, history
<1>1. ASSUME NEW u \in Updates, UpdateLoad(u) PROVE KeptHold'
  BY <1>1 DEF UpdateLoad, Starts, GoTo, TypeOK, Requests
<1>2. ASSUME NEW u \in Updates, Persist(u) PROVE KeptHold'
  <2>1. /\ creds' = held[u] /\ held' = held /\ pc[u] = "persisting"
        /\ kept \subseteq held[u] /\ u \in held[u]
        /\ kept' = IF Overlapped(u) THEN kept ELSE kept \cup {u}
    BY <1>2 DEF Persist, Places
  <2>2. ASSUME NEW v \in Updates, pc'[v] = "persisting"
        PROVE  kept' \subseteq held[v]
    <3>1. v # u /\ pc[v] = "persisting"
      BY <1>2, <2>2 DEF Persist, RowWritten, TypeOK, Requests
    <3> QED
      BY <2>1, <3>1 DEF Overlapped
  <2> QED
    BY <2>1, <2>2
<1>3. ASSUME NEW x \in Deletes, Commit(x) PROVE KeptHold'
  BY <1>3 DEF Commit, RowWritten, TypeOK, Requests
<1>4. ASSUME UNCHANGED <<creds, kept>>,
             \A u \in Updates :
               pc'[u] = "persisting" => pc[u] = "persisting" /\ held'[u] = held[u]
      PROVE  KeptHold'
  BY <1>4
<1>5. ASSUME NEW u \in Updates, Query(u) PROVE KeptHold'
  BY <1>4, <1>5 DEF Query, GoTo, Answer, TypeOK, Requests
<1>6. ASSUME NEW u \in Updates, Put(u) PROVE KeptHold'
  BY <1>4, <1>6 DEF Put, GoTo, Answer, Forward, TypeOK, Requests
<1>7. ASSUME NEW u \in Updates, PutFails(u) PROVE KeptHold'
  BY <1>4, <1>7 DEF PutFails, GoTo, Answer, Forward, TypeOK, Requests
<1>8. ASSUME NEW u \in Updates, Rotate(u) PROVE KeptHold'
  BY <1>4, <1>8 DEF Rotate, TypeOK, Requests
<1>9. ASSUME NEW k \in Connects, ConnectLoad(k) PROVE KeptHold'
  BY <1>4, <1>9 DEF ConnectLoad, GoTo, Starts, TypeOK, Requests
<1>10. ASSUME NEW k \in Connects, Post(k) PROVE KeptHold'
  BY <1>4, <1>10 DEF Post, GoTo, TypeOK, Requests
<1>11. ASSUME NEW k \in Connects, PostFails(k) PROVE KeptHold'
  BY <1>4, <1>11 DEF PostFails, GoTo, Answer, TypeOK, Requests
<1>12. ASSUME NEW k \in Connects, Record(k) PROVE KeptHold'
  BY <1>4, <1>12 DEF Record, GoTo, Answer, Forward, TypeOK, Requests
<1>13. ASSUME NEW d \in Disconnects, DisconnectLoad(d) PROVE KeptHold'
  BY <1>4, <1>13 DEF DisconnectLoad, GoTo, TypeOK, Requests
<1>14. ASSUME NEW d \in Disconnects, Detach(d) PROVE KeptHold'
  BY <1>4, <1>14 DEF Detach, GoTo, TypeOK, Requests
<1>15. ASSUME NEW d \in Disconnects, DetachFails(d) PROVE KeptHold'
  BY <1>4, <1>15 DEF DetachFails, GoTo, Answer, TypeOK, Requests
<1>16. ASSUME NEW d \in Disconnects, Remove(d) PROVE KeptHold'
  BY <1>4, <1>16 DEF Remove, GoTo, Answer, Forward, TypeOK, Requests
<1>17. ASSUME NEW x \in Deletes, Guard(x) PROVE KeptHold'
  BY <1>4, <1>17 DEF Guard, GoTo, TypeOK, Requests
<1>18. ASSUME NEW r \in Requests, Refuse(r) PROVE KeptHold'
  BY <1>4, <1>18 DEF Refuse, GoTo, Answer, TypeOK, Requests
<1>19. ASSUME NEW s \in Services, PodDrops(s) PROVE KeptHold'
  BY <1>4, <1>19 DEF PodDrops, TypeOK, Requests
<1>20. CASE JobTest
  BY <1>4, <1>20 DEF JobTest, TypeOK, Requests
<1>21. CASE JobWrite
  BY <1>4, <1>21 DEF JobWrite, RowWritten, TypeOK, Requests
<1>22. CASE Restart
  BY <1>4, <1>22 DEF Restart, InFlight, TypeOK, Requests
<1>23. CASE UNCHANGED vars
  BY <1>4, <1>23
<1> QED
  BY <1>1, <1>2, <1>3, <1>5, <1>6, <1>7, <1>8, <1>9, <1>10, <1>11, <1>12,
     <1>13, <1>14, <1>15, <1>16, <1>17, <1>18, <1>19, <1>20, <1>21, <1>22,
     <1>23 DEF Next, JobStep

(* The inductive invariant holds at first and is kept. *)
LEMMA Initially == Init => IInv
<1> SUFFICES ASSUME Init PROVE IInv
  OBVIOUS
<1> USE DatasourcesAssumption DEF Init
<1>1. TypeOK
  BY DEF TypeOK, Requests, Credentials
<1>2. Places /\ Fresh
  BY DEF Places, Fresh, Requests
<1>3. LinksHold /\ CopiesHold
  BY DEF LinksHold, CopiesHold, Serves, Posting, Detached, Deleting, Requests
<1>4. KeptHold
  BY DEF KeptHold, UpdatesAreKept, Requests
<1> QED BY <1>1, <1>2, <1>3, <1>4 DEF IInv

LEMMA Step == IInv /\ [Next]_vars => IInv'
BY TypeHalves, RequestTypesStep, DataTypesStep, PlacesStep, FreshStep,
   LinksStep, CopiesStep, KeptStep DEF IInv, TypeOK, RequestTypes, DataTypes

(* Every reachable state satisfies the inductive invariant, the types
   included. *)
THEOREM DatasourcesInvariance == Spec => []IInv
BY Initially, Step, PTL DEF Spec

(* Every reachable state has the declared types; in particular no request
   gives a pod credentials it does not hold. *)
THEOREM DatasourcesTyped == Spec => []TypeOK
<1>1. IInv => TypeOK
  BY DEF IInv
<1> QED BY <1>1, DatasourcesInvariance, PTL

(* Where no call or write failed, no restart cut a request off and no connect
   met a disconnect or a delete, the links tell which pods have the datasource, and a deleted datasource leaves
   none, for any number of services and of requests under way. *)
THEOREM LinksStayTrue == Spec => []LinksAgree
<1>1. IInv => LinksAgree
  <2> SUFFICES ASSUME IInv, Quiet PROVE
        /\ \A s \in Services \ unsure : s \in links <=> Serves(s)
        /\ creds = None => links \subseteq unsure
    BY DEF LinksAgree
  <2>1. \A s \in Services : ~Posting(s) /\ ~Detached(s)
    BY DatasourcesAssumption DEF IInv, Places, Quiet, InFlight, Posting,
       Detached, Requests
  <2> QED
    BY <2>1 DEF IInv, TypeOK, LinksHold, Deleting
<1> QED BY <1>1, DatasourcesInvariance, PTL

(* When nothing is under way, every linked pod has the credentials of the
   row; updates and connects may overlap in any number and any order.  The
   exceptions are those of the formula: a service on which a call or a write
   failed (reported or only logged), that a restart kept a request from, or
   where a connect crossed a disconnect or a delete (unsure), and one that
   the last request to deal with it served with older credentials (stale). *)
THEOREM CopiesStayTrue == Spec => []CopiesAgree
<1>1. IInv => CopiesAgree
  <2> SUFFICES ASSUME IInv, Quiet, creds # None,
                      NEW s \in links \ (unsure \cup stale)
               PROVE  pod[s] = creds
    BY DEF CopiesAgree
  <2>1. s \in Services /\ ~Detached(s) /\ ~Late(s)
    BY DatasourcesAssumption DEF IInv, TypeOK, Places, Quiet, InFlight,
       Detached, Late, Requests
  <2>2. \A u \in Updates : ~Owes(u, s)
    BY DEF Quiet, InFlight, Owes, IInv, Places, Requests
  <2> QED
    BY <2>1, <2>2 DEF IInv, LinksHold, CopiesHold
<1> QED BY <1>1, DatasourcesInvariance, PTL

(* The field of an update stays in the row, through any number of other
   updates, except where another one had read the row before it was written
   and was still to write its own. *)
THEOREM UpdatesStayKept == Spec => []UpdatesAreKept
<1>1. IInv => UpdatesAreKept
  BY DEF IInv, KeptHold
<1> QED BY <1>1, DatasourcesInvariance, PTL
=============================================================================
