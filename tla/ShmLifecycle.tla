---------------------------- MODULE ShmLifecycle ----------------------------
(***************************************************************************)
(* How the shared region and the two semaphores of a rollout transport     *)
(* come and go.  They are found by name, so processes that use one name    *)
(* can meet: clients that are started twice or again after a crash, and a  *)
(* server that attaches while one of them sets the objects up or takes     *)
(* them down.  A name is removed whatever object it stands for by now; an  *)
(* object lives on for those who have opened it.                           *)
(*                                                                         *)
(* An object is told by the client that created it.  ShmTransport is about *)
(* what client and server do with the objects once both have them.         *)
(***************************************************************************)
CONSTANTS
    Clients,    \* calls of create_client with one name
    NoOne

ASSUME LifecycleAssumption == NoOne \notin Clients

Semaphores == {"req", "resp"}
Names == Semaphores \cup {"shm"}
Nothing == [n \in Names |-> NoOne]

VARIABLES
    names,     \* whose object each name stands for
    region,    \* the region each client created
    opened,    \* the semaphores each client created
    pc,        \* where each client is
    attach,    \* where the server is
    joined     \* the objects the server has opened

lifecycle == <<names, region, opened, pc, attach, joined>>
creating == <<names, region, opened, pc>>
attaching == <<attach, joined>>

InitLifecycle ==
    /\ names = Nothing
    /\ region = [c \in Clients |-> "none"]
    /\ opened = [c \in Clients |-> {}]
    /\ pc = [c \in Clients |-> "unlink_req"]
    /\ attach = "away"
    /\ joined = Nothing

Goto(c, l) == pc' = [pc EXCEPT ![c] = l]
Unlink(n) == names' = [names EXCEPT ![n] = NoOne]

-----------------------------------------------------------------------------
(* create_client                                                           *)

(* "Best-effort cleanup of stale semaphores", stale or not.                *)
UnlinkStale(c) ==
    /\ \/ pc[c] = "unlink_req" /\ Unlink("req") /\ Goto(c, "unlink_resp")
       \/ pc[c] = "unlink_resp" /\ Unlink("resp") /\ Goto(c, "shm_open")
    /\ UNCHANGED <<region, opened, attaching>>

OpenRegion(c) ==
    /\ pc[c] = "shm_open"
    /\ IF names["shm"] = NoOne
       THEN /\ names' = [names EXCEPT !["shm"] = c]
            /\ region' = [region EXCEPT ![c] = "empty"]
            /\ Goto(c, "ftruncate")
       ELSE Goto(c, "refused") /\ UNCHANGED <<names, region>>
    /\ UNCHANGED <<opened, attaching>>

(* Memory may be short, for the region or for mapping it.                  *)
SizeRegion(c) ==
    /\ pc[c] = "ftruncate"
    /\ \/ region' = [region EXCEPT ![c] = "zero"] /\ Goto(c, "header")
       \/ Goto(c, "close_region") /\ UNCHANGED region
    /\ UNCHANGED <<names, opened, attaching>>

WriteHeader(c) ==
    /\ pc[c] = "header"
    /\ region' = [region EXCEPT ![c] = "ready"]
    /\ Goto(c, "sem_req")
    /\ UNCHANGED <<names, opened, attaching>>

(* O_EXCL again, and sem_open may fail for reasons of its own.             *)
OpenSemaphore(c, s, at, then) ==
    /\ pc[c] = at
    /\ \/ /\ names[s] = NoOne
          /\ names' = [names EXCEPT ![s] = c]
          /\ opened' = [opened EXCEPT ![c] = @ \cup {s}]
          /\ Goto(c, then)
       \/ Goto(c, "close_req") /\ UNCHANGED <<names, opened>>
    /\ UNCHANGED <<region, attaching>>

OpenSemaphores(c) ==
    OpenSemaphore(c, "req", "sem_req", "sem_resp") \/ OpenSemaphore(c, "resp", "sem_resp", "up")

-----------------------------------------------------------------------------
(* The destructor, which also runs when create_client throws: semaphores   *)
(* if they were opened, then the region.                                   *)

(* "Caller is responsible for keeping the returned object alive until the  *)
(* server attaches and finishes."                                          *)
Destroy(c) ==
    /\ pc[c] = "up" /\ attach = "away"
    /\ Goto(c, "close_req")
    /\ UNCHANGED <<names, region, opened, attaching>>

CloseSemaphore(c, s, at, then) ==
    /\ pc[c] = at
    /\ IF s \in opened[c] THEN Unlink(s) ELSE UNCHANGED names
    /\ Goto(c, then)
    /\ UNCHANGED <<region, opened, attaching>>

CloseRegion(c, then) ==
    /\ pc[c] = "close_region"
    /\ Unlink("shm")
    /\ Goto(c, then)
    /\ UNCHANGED <<region, opened, attaching>>

(* Mutant: the region first.                                              *)
Close_regionFirst(c) ==
    \/ pc[c] = "close_req" /\ Unlink("shm") /\ Goto(c, "close_resp")
           /\ UNCHANGED <<region, opened, attaching>>
    \/ CloseSemaphore(c, "req", "close_resp", "close_last")
    \/ CloseSemaphore(c, "resp", "close_last", "gone")
    \/ CloseRegion(c, "gone")

Close(c) ==
    \/ CloseSemaphore(c, "req", "close_req", "close_resp")
    \/ CloseSemaphore(c, "resp", "close_resp", "close_region")
    \/ CloseRegion(c, "gone")

Finished == {"refused", "gone", "dead"}

(* The process is killed.                                                  *)
Crash(c) ==
    /\ pc[c] \notin Finished
    /\ Goto(c, "dead")
    /\ UNCHANGED <<names, region, opened, attaching>>

(* No code removes what a dead client left under the region's name: it is  *)
(* done by hand, while nobody attaches or is in create_client.             *)
RemoveRegion ==
    /\ names["shm"] # NoOne /\ pc[names["shm"]] = "dead"
    /\ attach = "away" /\ \A c \in Clients : pc[c] \in Finished \cup {"unlink_req"}
    /\ Unlink("shm")
    /\ UNCHANGED <<region, opened, pc, attaching>>

-----------------------------------------------------------------------------
(* attach_server.  Wherever it fails it throws, and what it had opened is  *)
(* closed; it may be tried again.                                          *)

Leaves == attach' = "away" /\ joined' = Nothing

AttachRegion ==
    /\ attach = "away" /\ names["shm"] # NoOne
    /\ attach' = "header"
    /\ joined' = [joined EXCEPT !["shm"] = names["shm"]]
    /\ UNCHANGED creating

(* The header of a region that has no size yet cannot be read: SIGBUS.     *)
CheckHeader ==
    /\ attach = "header"
    /\ IF region[joined["shm"]] = "ready" THEN attach' = "sem_req" /\ UNCHANGED joined
                                          ELSE Leaves
    /\ UNCHANGED creating

JoinSemaphore(s, at, then) ==
    /\ attach = at
    /\ IF names[s] # NoOne THEN attach' = then /\ joined' = [joined EXCEPT ![s] = names[s]]
                           ELSE Leaves
    /\ UNCHANGED creating

JoinSemaphores ==
    JoinSemaphore("req", "sem_req", "sem_resp") \/ JoinSemaphore("resp", "sem_resp", "attached")

Detach ==
    /\ attach = "attached"
    /\ Leaves
    /\ UNCHANGED creating

Client(c) ==
    \/ UnlinkStale(c) \/ OpenRegion(c) \/ SizeRegion(c) \/ WriteHeader(c) \/ OpenSemaphores(c)
    \/ Destroy(c) \/ Close(c) \/ Crash(c)

NextLifecycle ==
    \/ \E c \in Clients : Client(c)
    \/ RemoveRegion
    \/ AttachRegion \/ CheckHeader \/ JoinSemaphores \/ Detach

SpecLifecycle == InitLifecycle /\ [][NextLifecycle]_lifecycle

-----------------------------------------------------------------------------
(* Properties                                                              *)

Up == {c \in Clients : pc[c] = "up"}

(* A name stands for an object of a client that is still going to remove   *)
(* it, or that died: a create_client that fails half-way leaves nothing.   *)
NamesOwned == \A n \in Names : names[n] # NoOne => pc[names[n]] \notin {"refused", "gone"}

(* A client that is up keeps its region's name.  It can lose those of its  *)
(* semaphores, and only to another create_client on its way to be refused, *)
(* never to a client that is being destroyed.                              *)
KeepsNames ==
    \A c \in Up :
        /\ names["shm"] = c
        /\ \A s \in Semaphores :
              \/ names[s] = c
              \/ /\ names[s] = NoOne
                 /\ \E d \in Clients : pc[d] \in {"unlink_resp", "shm_open", "refused", "dead"}

(* A server on the region of a client that is up waits on that client's    *)
(* semaphores, not on those of an earlier or a later one.                  *)
JoinsOne ==
    attach = "attached" /\ joined["shm"] \in Up =>
        \A s \in Semaphores : joined[s] = joined["shm"]

(* Sessions of clients of one name do not mix.                             *)
SessionsApart == NamesOwned /\ KeepsNames /\ JoinsOne
=============================================================================
