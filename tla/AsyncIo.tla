------------------------------ MODULE AsyncIo ------------------------------
(***************************************************************************)
(* Asynchronous output (ASYNCIO): threads queue bytes in a ring that       *)
(* grows, and one thread writes them to a file.  Logs and the recording of *)
(* a game (tee historian) are written through it.                          *)
(*                                                                         *)
(* What a thread does between taking the lock and letting it go is one     *)
(* step, but for a writer, who may write many times under one lock.  A     *)
(* byte is its number in the order of queueing.                            *)
(***************************************************************************)
EXTENDS Integers, Sequences

CONSTANTS
  Writers,    \* threads that write
  BufSize,    \* ASYNC_BUFSIZE
  LocalSize,  \* ASYNC_LOCAL_BUFSIZE
  Pieces,     \* how many bytes may be written at a time
  Uses,       \* the calls by which an output may be ended, in their order
  Failing,    \* those of them in which writing to the file may fail
  MaxBytes    \* bound: how many bytes are queued

ASSUME AsyncIoAssumption ==
  /\ BufSize \in Nat \ {0}
  /\ LocalSize \in Nat \ {0}
  /\ Pieces \subseteq Nat \ {0}
  /\ Uses \subseteq Seq({"close", "wait", "free"})
  /\ \A u \in Uses : \A i \in DOMAIN u : u[i] = "free" => i = Len(u)
  /\ MaxBytes \in Nat

VARIABLES
  ring,      \* buffer, buffer_size, read_pos, write_pos
  finish,    \* "running", "close" or "exit"
  refcount,
  error,     \* aio->error
  sphore,    \* the value of the semaphore
  pc,        \* where the writing thread is
  local,     \* local_buffer
  file,      \* the bytes in the file
  open,      \* whether the file is open
  writer,    \* each writer: "idle", "locked", or about to "signal"
  use,       \* one of Uses
  next,      \* which of its calls is due, or under way
  call,      \* where that call is: "start", "signal" or "join"
  queued,    \* history: how many bytes have been queued,
  asked      \* and how many before the first of the calls

ioVars == <<pc, local, file, open>>
mainVars == <<use, next, call, asked>>
vars == <<ring, finish, refcount, error, sphore, ioVars, writer, mainVars, queued>>

Init ==
  /\ ring = [buffer |-> [i \in 0 .. BufSize - 1 |-> 0], size |-> BufSize,
             read |-> 0, write |-> 0]
  /\ finish = "running"
  /\ refcount = 2
  /\ error = FALSE
  /\ sphore = 0
  /\ pc = "test" /\ local = << >> /\ file = << >> /\ open = TRUE
  /\ writer = [w \in Writers |-> "idle"]
  /\ use \in Uses
  /\ next = 1 /\ call = "start" /\ asked = 0
  /\ queued = 0

-----------------------------------------------------------------------------
BufferLen(r) ==
  IF r.write >= r.read THEN r.write - r.read ELSE r.size + r.write - r.read

(* buffer_ptrs: up to the end of the ring, and on from its start *)
Buf1(r) ==
  LET end == IF r.read <= r.write THEN r.write ELSE r.size
  IN  [i \in 1 .. (end - r.read) |-> r.buffer[r.read + i - 1]]
Buf2(r) ==
  IF r.read <= r.write THEN << >> ELSE [i \in 1 .. r.write |-> r.buffer[i - 1]]

Contents(r) == Buf1(r) \o Buf2(r)

Fits_Full(r, n) == n <= r.size - BufferLen(r)

(* A full ring would look like an empty one. *)
Fits(r, n) == n < r.size - BufferLen(r)

(* n bytes after number q are copied behind those in the ring, around its  *)
(* end.                                                                    *)
Filled(r, q, n) ==
  [r EXCEPT !.buffer = [i \in 0 .. r.size - 1 |->
                          LET k == IF i >= r.write THEN i - r.write
                                                   ELSE i - r.write + r.size
                          IN  IF k < n THEN q + k + 1 ELSE @[i]],
            !.write = (@ + n) % r.size]

(* The size of the next buffer is doubled until it is large enough; *)
NextBufferSize(cur, need) ==
  {s \in need .. (cur + 2 * need) :
     \E k \in 0 .. need : s = cur * 2^k /\ \A j \in 0 .. k - 1 : cur * 2^j < need}

(* the bytes in the ring go to its start.                                  *)
Grown(r, q, n, size) ==
  LET len == BufferLen(r)
  IN  [buffer |-> [i \in 0 .. size - 1 |->
                     IF i < len THEN Contents(r)[i + 1]
                     ELSE IF i < len + n THEN q + i - len + 1 ELSE 0],
       size |-> size, read |-> 0, write |-> len + n]

-----------------------------------------------------------------------------
Unlocked == \A w \in Writers : writer[w] # "locked"

(* The tee historian is written by the thread that ends it; a log is       *)
(* shared, and written to even after it has been ended.                    *)
Shared == \A i \in DOMAIN use : use[i] # "free"

Begun == next > 1 \/ call # "start"

Becomes(w, where) == writer' = [writer EXCEPT ![w] = where]

(* aio_lock and aio_write_unlocked, which may be called again, *)
Write(w) ==
  /\ \/ writer[w] = "idle" /\ Unlocked /\ (Begun => Shared)
     \/ writer[w] = "locked"
  /\ Becomes(w, "locked")
  /\ \E n \in Pieces :
       /\ queued + n <= MaxBytes
       /\ queued' = queued + n
       /\ IF Fits(ring, n) THEN ring' = Filled(ring, queued, n)
          ELSE \E size \in NextBufferSize(ring.size, BufferLen(ring) + n + 1) :
                 ring' = Grown(ring, queued, n, size)
  /\ UNCHANGED <<finish, refcount, error, sphore, ioVars, mainVars>>

(* and aio_unlock, *)
Unlock(w) ==
  /\ writer[w] = "locked"
  /\ Becomes(w, "signal")
  /\ UNCHANGED <<ring, finish, refcount, error, sphore, ioVars, mainVars, queued>>

(* which signals once the lock is free. *)
Signal(w) ==
  /\ writer[w] = "signal"
  /\ Becomes(w, "idle")
  /\ sphore' = sphore + 1
  /\ UNCHANGED <<ring, finish, refcount, error, ioVars, mainVars, queued>>

-----------------------------------------------------------------------------
(* aio_thread *)
Sleep ==
  /\ pc = "test" /\ Unlocked
  /\ ring.read = ring.write
  /\ finish = "running"
  /\ pc' = "wait"
  /\ UNCHANGED <<ring, finish, refcount, error, sphore, local, file, open,
                 writer, mainVars, queued>>

Wake ==
  /\ pc = "wait"
  /\ sphore > 0
  /\ sphore' = sphore - 1
  /\ pc' = "test"
  /\ UNCHANGED <<ring, finish, refcount, error, local, file, open,
                 writer, mainVars, queued>>

MayExit_Pending == finish # "running"

MayExit == ring.read = ring.write /\ finish # "running"

Exit ==
  /\ pc = "test" /\ Unlocked
  /\ MayExit
  /\ open' = (open /\ finish # "close")
  /\ refcount' = refcount - 1
  /\ pc' = "exited"
  /\ UNCHANGED <<ring, finish, error, sphore, local, file, writer, mainVars, queued>>

(* As much as the local buffer holds is taken out of the ring, *)
Take ==
  LET bytes == Contents(ring)
      n == IF Len(bytes) > LocalSize THEN LocalSize ELSE Len(bytes)
  IN  /\ pc = "test" /\ Unlocked
      /\ ring.read # ring.write
      /\ local' = SubSeq(bytes, 1, n)
      /\ ring' = [ring EXCEPT !.read = (@ + n) % ring.size]
      /\ pc' = "write"
      /\ UNCHANGED <<finish, refcount, error, sphore, file, open, writer,
                     mainVars, queued>>

(* and written without the lock; a disk may be full, and have room again,  *)
(* but the error of a file stays.                                          *)
WriteOut ==
  /\ pc = "write" /\ Unlocked
  /\ \E ok \in BOOLEAN, n \in 0 .. Len(local) :
       /\ IF ok THEN n = Len(local) ELSE use \in Failing
       /\ file' = file \o SubSeq(local, 1, n)
       /\ error' = (error \/ ~ok)
  /\ local' = << >>
  /\ pc' = "test"
  /\ UNCHANGED <<ring, finish, refcount, sphore, open, writer, mainVars, queued>>

-----------------------------------------------------------------------------
Begins(c) ==
  /\ next <= Len(use)
  /\ use[next] = c
  /\ call = "start"
  /\ Unlocked
  /\ ~Shared => \A w \in Writers : writer[w] = "idle"
  /\ asked' = IF next = 1 THEN queued ELSE asked

(* aio_close, *)
Close ==
  /\ Begins("close")
  /\ finish' = "close"
  /\ call' = "signal"
  /\ UNCHANGED <<ring, refcount, error, sphore, ioVars, writer, use, next, queued>>

(* aio_wait, which ends the thread but leaves the file open if nobody      *)
(* closed it,                                                              *)
Wait ==
  /\ Begins("wait")
  /\ finish' = IF finish = "running" THEN "exit" ELSE finish
  /\ call' = "signal"
  /\ UNCHANGED <<ring, refcount, error, sphore, ioVars, writer, use, next, queued>>

CallSignal_Closing ==
  /\ call = "signal"
  /\ IF use[next] = "wait"
       THEN sphore' = sphore + 1 /\ call' = "join" /\ UNCHANGED next
       ELSE UNCHANGED sphore /\ call' = "start" /\ next' = next + 1
  /\ UNCHANGED <<ring, finish, refcount, error, ioVars, writer, use, asked, queued>>

CallSignal ==
  /\ call = "signal"
  /\ sphore' = sphore + 1
  /\ IF use[next] = "wait" THEN call' = "join" /\ UNCHANGED next
                           ELSE call' = "start" /\ next' = next + 1
  /\ UNCHANGED <<ring, finish, refcount, error, ioVars, writer, use, asked, queued>>

Join ==
  /\ call = "join"
  /\ pc = "exited"
  /\ call' = "start"
  /\ next' = next + 1
  /\ UNCHANGED <<ring, finish, refcount, error, sphore, ioVars, writer, use,
                 asked, queued>>

Free_Now ==
  /\ Begins("free")
  /\ refcount' = 0
  /\ next' = next + 1
  /\ UNCHANGED <<ring, finish, error, sphore, ioVars, writer, use, call, queued>>

(* and aio_free; whoever lets go last frees the ring.                      *)
Free ==
  /\ Begins("free")
  /\ refcount' = refcount - 1
  /\ next' = next + 1
  /\ UNCHANGED <<ring, finish, error, sphore, ioVars, writer, use, call, queued>>

-----------------------------------------------------------------------------
Thread == Sleep \/ Wake \/ Exit \/ Take \/ WriteOut
Main == Close \/ Wait \/ CallSignal \/ Join \/ Free
Logging(w) == Write(w) \/ Unlock(w) \/ Signal(w)

Next == Thread \/ Main \/ \E w \in Writers : Logging(w)

Spec == Init /\ [][Next]_vars

(* The threads run; nobody has to write, nor to end the output, but who    *)
(* has begun to goes on, and nobody keeps the lock.                        *)
FairSpec ==
  /\ Spec
  /\ SF_vars(Thread)
  /\ SF_vars(Begun /\ Main)
  /\ \A w \in Writers : WF_vars(Unlock(w)) /\ WF_vars(Signal(w))

-----------------------------------------------------------------------------
(* What has been handed to the file *)
Put == queued - BufferLen(ring) - Len(local)

Stream == INSTANCE ByteStream WITH put <- Put, failed <- error, ended <- pc = "exited"

(* The output is a byte stream: nothing is lost, repeated or put out of    *)
(* order when the ring wraps around, grows, or is emptied in parts while   *)
(* others write, and the thread leaves only an empty ring.                 *)
StreamSpec == Stream!Spec

(* "Call this function after aio_wait to see if the process of writing to  *)
(* the file succeeded": without an error every byte queued before the      *)
(* output was ended is in the file by then.                                *)
Waited == \E i \in 1 .. next - 1 : use[i] = "wait"

HonestError ==
  Waited /\ ~error =>
    /\ Len(file) >= asked
    /\ \A i \in 1 .. asked : file[i] = i

(* The ring and the semaphore are freed by the last to use them: neither   *)
(* the thread nor a writer about to signal comes back to them, whether the *)
(* caller has waited for the thread or not.                                *)
NoUseAfterFree ==
  refcount = 0 =>
    /\ pc = "exited"
    /\ \A w \in Writers : writer[w] = "idle"
    /\ next > Len(use) /\ call = "start"

(* No wake-up is lost: the thread does not sleep on bytes in the ring, and *)
(* once the output is being ended it comes to its end, whoever waits for   *)
(* it goes on, and the ring is freed if that is asked for.                 *)
Progress ==
  /\ Put < queued ~> Put = queued \/ pc = "exited"
  /\ Begun ~> pc = "exited" /\ next > Len(use) /\ (~Shared => refcount = 0)
=============================================================================
