----------------------------- MODULE ControlReader -----------------------------
(***************************************************************************)
(* ctl::Reader: a daemon listens on a socket in the file system, reads one *)
(* command from each client that connects, and puts a ControlEvent on a    *)
(* channel.                                                                *)
(*                                                                         *)
(* Several instances of the daemon share the path of the socket: one after *)
(* another, a second one by mistake, or one started after another crashed  *)
(* and left its socket behind.  What is at the path decides what the next  *)
(* one does: if there is nothing, openTheWormhole creates the directory,   *)
(* and cuts its own _path down to that directory on the way.               *)
(*                                                                         *)
(* An exception of operator() leaves its thread, and the process ends      *)
(* without running destructors, as it does for the other readers.          *)
(***************************************************************************)
EXTENDS Naturals, Sequences, Functions

CONSTANTS
  Instances,  \* processes that run the reader
  Texts,      \* what a client may write
  MaxClients, \* bound: connections, each with at most one command
  MaxStarts   \* bound: starts of processes

ASSUME ControlAssumption ==
  /\ {MaxClients, MaxStarts} \subseteq Nat
  /\ "nothing" \notin Texts
  /\ Instances \intersect {"nothing", "file"} = {}

Clients == 1 .. MaxClients \* in the order in which they connect

Socket == "ctl"      \* /var/run/lsmonitor/ctl
Directory == "dir"   \* /var/run/lsmonitor

VARIABLES
  at,       \* at the socket's path: "nothing", "file", or the instance that bound it
  pc,       \* of each instance: where operator() or the destructor is
  path,     \* _path
  stopping, \* stopping
  queue,    \* connections the kernel holds for accept
  data,     \* the connection dataFd belongs to, or 0
  text,     \* of each client: what it wrote, or "nothing"
  client,   \* of each client: "new", "open", or "gone" for good
  sent,     \* the events on the process's channel
  served,   \* history: clients whose connection the process has read
  missed,   \* history: the stop's signal found the thread in a call and left it there
  starts,   \* history: starts so far
  overlap,  \* history: an instance started while another was up
  aided     \* history: somebody other than a stop left something at the path

kernel == <<at, queue, text, client>>
stop == <<stopping, missed>>
memory == <<path, stop, data, sent, served>>
history == <<starts, overlap, aided>>
vars == <<kernel, pc, memory, history>>

Up(p) == pc[p] # "down"
Listening(p) == pc[p] \in {"loop", "accept", "read", "close"}
Bound(p) == Listening(p) \/ pc[p] \in {"listen", "destroy", "unlink"}

TypeOK ==
  /\ at \in {"nothing", "file"} \union Instances
  /\ pc \in [Instances -> {"down", "exists", "remove", "create", "bind", "listen", "loop",
                           "accept", "read", "close", "destroy", "unlink"}]
  /\ path \in [Instances -> {Socket, Directory}]
  /\ stopping \in [Instances -> BOOLEAN]
  /\ queue \in [Instances -> Seq(Clients)]
  /\ data \in [Instances -> Clients \union {0}]
  /\ \A p \in Instances : data[p] # 0 <=> pc[p] \in {"read", "close"}
  /\ text \in [Clients -> Texts \union {"nothing"}]
  /\ client \in [Clients -> {"new", "open", "gone"}]
  /\ sent \in [Instances -> Seq([from : Clients, code : {"NONE", "DISABLE", "ENABLE"}])]
  /\ served \in [Instances -> SUBSET Clients]
  /\ missed \in [Instances -> BOOLEAN]
  /\ starts \in 0 .. MaxStarts
  /\ {overlap, aided} \subseteq BOOLEAN

Init ==
  /\ at = "nothing"
  /\ pc = [p \in Instances |-> "down"]
  /\ path = [p \in Instances |-> Socket]
  /\ stopping = [p \in Instances |-> FALSE]
  /\ queue = [p \in Instances |-> <<>>]
  /\ data = [p \in Instances |-> 0]
  /\ text = [c \in Clients |-> "nothing"]
  /\ client = [c \in Clients |-> "new"]
  /\ sent = [p \in Instances |-> <<>>]
  /\ served = [p \in Instances |-> {}]
  /\ missed = [p \in Instances |-> FALSE]
  /\ starts = 0
  /\ overlap = FALSE
  /\ aided = FALSE

Go(p, place) == pc' = [pc EXCEPT ![p] = place]

(* ---------------------------- openTheWormhole --------------------------- *)

\* A new process with a new Reader.
Start(p) ==
  /\ ~Up(p)
  /\ starts < MaxStarts
  /\ Go(p, "exists")
  /\ starts' = starts + 1
  /\ overlap' = (overlap \/ \E q \in Instances : Up(q))
  /\ UNCHANGED <<kernel, memory, aided>>

Exists(p) ==
  /\ pc[p] = "exists"
  /\ Go(p, IF at = "nothing" THEN "create" ELSE "remove")
  /\ UNCHANGED <<kernel, memory, history>>

Remove(p) ==
  /\ pc[p] = "remove"
  /\ at' = "nothing"
  /\ Go(p, "bind")
  /\ UNCHANGED <<memory, queue, text, client, history>>

RemoveFilenameOfCopy(p) == path

\* remove_filename() changes the path it is called on.
RemoveFilename(p) == [path EXCEPT ![p] = Directory]

Create(p) ==
  /\ pc[p] = "create"
  /\ path' = RemoveFilename(p)
  /\ Go(p, "bind")
  /\ UNCHANGED <<kernel, stop, data, sent, served, history>>

\* bind needs a path at which there is nothing; the directory is there.
Bindable(p) == path[p] = Socket /\ at = "nothing"

Bind(p) ==
  /\ pc[p] = "bind"
  /\ Bindable(p)
  /\ at' = p
  /\ Go(p, "listen")
  /\ UNCHANGED <<memory, queue, text, client, history>>

\* The process is gone, with its memory and what it had open.
Down(p) ==
  /\ Go(p, "down")
  /\ path' = [path EXCEPT ![p] = Socket]
  /\ stopping' = [stopping EXCEPT ![p] = FALSE]
  /\ missed' = [missed EXCEPT ![p] = FALSE]
  /\ data' = [data EXCEPT ![p] = 0]
  /\ sent' = [sent EXCEPT ![p] = <<>>]
  /\ served' = [served EXCEPT ![p] = {}]
  /\ queue' = [queue EXCEPT ![p] = <<>>]

\* It ends where it is: its socket stays.
End(p) ==
  /\ Down(p)
  /\ aided' = (aided \/ at = p)
  /\ UNCHANGED <<at, text, client, starts, overlap>>

\* remove, create_directories or socket failed: an exception.
OpenFails(p) == pc[p] \in {"remove", "create", "bind"} /\ End(p)

BindFailsUnseen(p) ==
  pc[p] = "bind" /\ ~Bindable(p) /\ Go(p, "listen") /\ UNCHANGED <<kernel, memory, history>>

BindFails(p) == pc[p] = "bind" /\ ~Bindable(p) /\ End(p)

(* ------------------------- operator(), handleEvents ---------------------- *)

Listen(p) ==
  /\ pc[p] = "listen"
  /\ Go(p, "loop")
  /\ UNCHANGED <<kernel, memory, history>>

\* listen or accept failed, or getsockopt's size is wrong: an exception.
ListenerFails(p) == pc[p] \in {"listen", "accept", "read"} /\ End(p)

TestDeaf(p) == "accept"

Test(p) == IF stopping[p] THEN "destroy" ELSE "accept"

Loop(p) ==
  /\ pc[p] = "loop"
  /\ Go(p, Test(p))
  /\ UNCHANGED <<kernel, memory, history>>

Accept(p) ==
  /\ pc[p] = "accept"
  /\ queue[p] # <<>>
  /\ data' = [data EXCEPT ![p] = Head(queue[p])]
  /\ queue' = [queue EXCEPT ![p] = Tail(@)]
  /\ Go(p, "read")
  /\ UNCHANGED <<at, path, stop, text, client, sent, served, history>>

\* ControlEvent: the sizes are compared too.
Code(t) ==
  CASE t = "off" -> "DISABLE"
    [] t = "on" -> "ENABLE"
    [] OTHER -> "NONE"

\* The event of what read returns, or none.
EventsOfOpen(c) ==
  IF client[c] = "gone" THEN <<>> ELSE <<[from |-> c, code |-> Code(text[c])]>>

Events(c) ==
  IF text[c] = "nothing" THEN <<>> ELSE <<[from |-> c, code |-> Code(text[c])]>>

ReadableAtEnd(c) == client[c] = "gone"

\* read returns a text, or 0 when the client left without one.
Readable(c) == text[c] # "nothing" \/ client[c] = "gone"

Read(p) ==
  /\ pc[p] = "read"
  /\ Readable(data[p])
  /\ sent' = [sent EXCEPT ![p] = @ \o Events(data[p])]
  /\ served' = [served EXCEPT ![p] = @ \union {data[p]}]
  /\ Go(p, "close")
  /\ UNCHANGED <<kernel, path, stop, data, history>>

\* read fails for a reason of its own: handleEvents warns, and the thread goes on.
ReadFails(p) ==
  /\ pc[p] = "read"
  /\ Go(p, "close")
  /\ UNCHANGED <<kernel, memory, history>>

CloseForgotten(p) == data

Closed(p) == [data EXCEPT ![p] = 0]

CloseData(p) ==
  /\ pc[p] = "close"
  /\ data' = Closed(p)
  /\ Go(p, "loop")
  /\ UNCHANGED <<kernel, path, stop, sent, served, history>>

(* ----------------------------- the destructor --------------------------- *)

Destroy(p) ==
  /\ pc[p] = "destroy"
  /\ queue' = [queue EXCEPT ![p] = <<>>]
  /\ Go(p, "unlink")
  /\ UNCHANGED <<at, memory, text, client, history>>

\* It removes whatever is at the path by now.
Unlink(p) ==
  /\ pc[p] = "unlink"
  /\ at' = "nothing"
  /\ Down(p)
  /\ UNCHANGED <<text, client, history>>

Reader(p) ==
  \/ Exists(p)
  \/ Remove(p)
  \/ Create(p)
  \/ Bind(p)
  \/ BindFails(p)
  \/ Listen(p)
  \/ Loop(p)
  \/ Accept(p)
  \/ Read(p)
  \/ CloseData(p)
  \/ Destroy(p)
  \/ Unlink(p)

(* ------------------------------ the outside ----------------------------- *)

\* The flag goes up; the signal may interrupt a blocked accept or read.
Stop(p) ==
  /\ Up(p)
  /\ ~stopping[p]
  /\ stopping' = [stopping EXCEPT ![p] = TRUE]
  /\ \/ pc' = pc /\ missed' = [missed EXCEPT ![p] = pc[p] \in {"accept", "read"}]
     \/ pc[p] = "accept" /\ queue[p] = <<>> /\ Go(p, "loop") /\ UNCHANGED missed
     \/ pc[p] = "read" /\ ~Readable(data[p]) /\ Go(p, "close") /\ UNCHANGED missed
  /\ UNCHANGED <<kernel, path, data, sent, served, history>>

Crash(p) == Up(p) /\ End(p)

\* Somebody puts a file there, while no instance is up.
PutFile ==
  /\ \A p \in Instances : ~Up(p)
  /\ at = "nothing"
  /\ at' = "file"
  /\ aided' = TRUE
  /\ UNCHANGED <<pc, memory, queue, text, client, starts, overlap>>

\* A backlog of 1 is full with two.
Connect(c, p) ==
  /\ client[c] = "new"
  /\ \A d \in 1 .. c - 1 : client[d] # "new"
  /\ at = p
  /\ Listening(p)
  /\ Len(queue[p]) < 2
  /\ client' = [client EXCEPT ![c] = "open"]
  /\ queue' = [queue EXCEPT ![p] = Append(@, c)]
  /\ UNCHANGED <<at, pc, memory, text, history>>

Waits(c, p) == c = data[p] \/ c \in Range(queue[p])

Connected(c) == client[c] = "open" /\ \E p \in Instances : Waits(c, p)

Write(c) ==
  /\ Connected(c)
  /\ text[c] = "nothing"
  /\ \E t \in Texts : text' = [text EXCEPT ![c] = t]
  /\ UNCHANGED <<at, pc, memory, queue, client, history>>

Leave(c) ==
  /\ Connected(c)
  /\ client' = [client EXCEPT ![c] = "gone"]
  /\ UNCHANGED <<at, pc, memory, queue, text, history>>

Next ==
  \/ \E p \in Instances :
       \/ Start(p)
       \/ Reader(p)
       \/ OpenFails(p)
       \/ ListenerFails(p)
       \/ ReadFails(p)
       \/ Stop(p)
       \/ Crash(p)
  \/ PutFile
  \/ \E c \in Clients : Write(c) \/ Leave(c) \/ \E p \in Instances : Connect(c, p)

Spec == Init /\ [][Next]_vars /\ \A p \in Instances : WF_vars(Reader(p))

(* ------------------------------ properties ------------------------------ *)

\* Left alone, no instance ever listens: the first finds nothing at the path and
\* binds to the directory, and one that was stopped leaves nothing for the next.
\* It takes a crash, an error after bind or a stranger's file.
NeverListensUnaided == (\E p \in Instances : Bound(p)) => aided

\* While instances do not overlap, one that listens can be reached at the path.
\* (A second one removes the first one's socket, and the first one, when it is
\* stopped, the second one's.)
ReachableAlone == ~overlap => \A p \in Instances : Listening(p) => at = p

\* A command that was read is on the channel exactly once, even if its client left
\* at once, and commands are in the order in which their clients connected.
Obeyed ==
  \A p \in Instances :
    /\ \A i, j \in DOMAIN sent[p] : i < j => sent[p][i].from < sent[p][j].from
    /\ \A c \in served[p] : text[c] # "nothing" => \E i \in DOMAIN sent[p] : sent[p][i].from = c

\* The client in hand writes nothing and does not leave.
Silent(p) == pc[p] = "read" /\ text[data[p]] = "nothing" /\ client[data[p]] = "open"

\* The connection in hand is read, or its read has failed.
Handled(c, p) == c \in served[p] \/ (pc[p] = "close" /\ data[p] = c)

\* A waiting client that wrote comes to be read, whoever came before it, left or
\* made its read fail, unless one before it keeps silent for good.
Heard ==
  \A p \in Instances, c \in Clients :
    (Waits(c, p) /\ text[c] # "nothing")
      ~> (Handled(c, p) \/ ~Up(p) \/ stopping[p] \/ []Silent(p))

\* The steps the thread takes at most from each place once the flag is up.
StepsLeft(p) ==
  CASE pc[p] = "exists" -> 7
    [] pc[p] \in {"create", "remove", "accept"} -> 6
    [] pc[p] \in {"bind", "read"} -> 5
    [] pc[p] \in {"listen", "close"} -> 4
    [] pc[p] = "loop" -> 3
    [] pc[p] = "destroy" -> 2
    [] pc[p] = "unlink" -> 1
    [] OTHER -> 0

\* Once the flag is up every step of the thread brings it nearer its end, however
\* many clients wait: it obeys at most the command of one more, and nothing that
\* other instances do to the path sends it back.
StopBounded ==
  [][\A p \in Instances :
       stopping[p] => pc'[p] = pc[p] \/ StepsLeft(p)' < StepsLeft(p)]_vars

\* A stop ends the process, unless its signal misses the thread in accept or read
\* and nobody connects or writes any more.
StopEnds ==
  \A p \in Instances :
    stopping[p] ~>
      (~Up(p) \/ (missed[p] /\ ([](pc[p] = "accept" /\ queue[p] = <<>>) \/ []Silent(p))))
=============================================================================
