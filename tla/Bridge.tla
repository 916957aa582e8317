-------------------------------- MODULE Bridge --------------------------------
(***************************************************************************)
(* One accepted connection of the SSL tunnel, the SSLH multiplexer or an   *)
(* HTTP proxy, from accept to return: the TLS handshake, the peek at the   *)
(* first bytes or the request, the dial of the backend, and two copying    *)
(* goroutines, netbridge.Pipe's or the proxy's own (src/internal/netbridge,*)
(* ssltunnel.handleConn, sslhmux.handleMuxConn, proxy.handleConn).         *)
(*                                                                         *)
(* Bytes are counted, not named: the n-th byte read is the n-th sent.  The *)
(* peers and the kernel's sockets are external.  A socket closed while     *)
(* bytes from its peer are unread, or one that gets bytes after it was     *)
(* closed, resets the connection, and the peer reads no more from it.      *)
(***************************************************************************)
EXTENDS Integers

CONSTANTS
  MaxUp, MaxDown,  \* bound: bytes the client and the backend send
  Window,          \* bytes a connection holds that its reader has not taken
  PeekLen          \* bytes the multiplexer wants to see

ASSUME ParametersOK ==
  /\ MaxUp \in Nat /\ MaxDown \in Nat
  /\ Window \in Nat \ {0} /\ PeekLen \in Nat \ {0}

VARIABLES
  daemon,   \* which of the three accepted the connection
  stage,    \* of the handler: "early", "split", "dialing", "replying",
            \* "bridging", "over"
  client,   \* sent: bytes; end: how it stopped; got: bytes it has read
  backend,  \* the same, and eof: it has been told that the client finished
  csock,    \* the handler's socket to the client; "half" after CloseWrite
  bsock,    \* its socket to the backend; likewise
  up,       \* the client-to-backend goroutine: bytes read from the client's
            \* socket (peeked ones included), taken to be copied, and written;
            \* kept: those the proxy read as the request and passes to nobody
  down      \* the backend-to-client goroutine

peers == <<client, backend>>
vars  == <<daemon, stage, peers, csock, bsock, up, down>>

Init ==
  /\ daemon \in {"ssltunnel", "sslhmux", "proxy"} /\ stage = "early"
  /\ client = [sent |-> 0, end |-> "open", got |-> 0]
  /\ backend = [sent |-> 0, end |-> "open", got |-> 0, eof |-> FALSE]
  /\ csock = "open" /\ bsock = "none"
  /\ up = [pc |-> "copy", read |-> 0, taken |-> 0, put |-> 0, kept |-> 0]
  /\ down = [pc |-> "copy", taken |-> 0, put |-> 0]

-----------------------------------------------------------------------------
(* The peers.                                                              *)

Live(sock) == sock \in {"open", "half"}

\* Bytes on their way to the backend or taken by it.
Passed == up.put - up.kept

AfterClose(sock) == IF sock = "closed" THEN "reset" ELSE sock

ClientSend ==
  /\ client.end = "open" /\ client.sent < MaxUp /\ csock # "reset"
  /\ Live(csock) => client.sent - up.read < Window
  /\ client' = [client EXCEPT !.sent = @ + 1]
  /\ csock' = AfterClose(csock)
  /\ UNCHANGED <<daemon, stage, backend, bsock, up, down>>

\* EOF, or a TLS close_notify.
ClientFin ==
  /\ client.end = "open"
  /\ client' = [client EXCEPT !.end = "fin"]
  /\ UNCHANGED <<daemon, stage, backend, csock, bsock, up, down>>

\* RST, or the death that keepalive finds.
ClientReset ==
  /\ client.end # "reset"
  /\ client' = [client EXCEPT !.end = "reset"]
  /\ UNCHANGED <<daemon, stage, backend, csock, bsock, up, down>>

ClientRead ==
  /\ client.end # "reset" /\ csock # "reset" /\ client.got < down.put
  /\ client' = [client EXCEPT !.got = @ + 1]
  /\ UNCHANGED <<daemon, stage, backend, csock, bsock, up, down>>

BackendSend ==
  /\ backend.end = "open" /\ backend.sent < MaxDown /\ bsock \notin {"none", "reset"}
  /\ Live(bsock) => backend.sent - down.taken < Window
  /\ backend' = [backend EXCEPT !.sent = @ + 1]
  /\ bsock' = AfterClose(bsock)
  /\ UNCHANGED <<daemon, stage, client, csock, up, down>>

BackendRead ==
  /\ backend.end = "open" /\ bsock # "reset" /\ backend.got < Passed
  /\ backend' = [backend EXCEPT !.got = @ + 1]
  /\ UNCHANGED <<daemon, stage, client, csock, bsock, up, down>>

BackendEof ==
  /\ backend.end = "open" /\ ~backend.eof
  /\ \/ bsock \in {"half", "closed"} /\ backend.got = Passed
     \/ bsock = "reset"
  /\ backend' = [backend EXCEPT !.eof = TRUE]
  /\ UNCHANGED <<daemon, stage, client, csock, bsock, up, down>>

\* It closes: having been told of the end of the request, or without waiting.
BackendEnd ==
  /\ backend.end = "open" /\ bsock # "none"
  /\ backend' = [backend EXCEPT !.end = IF backend.eof THEN "answered" ELSE "quit"]
  /\ UNCHANGED <<daemon, stage, client, csock, bsock, up, down>>

BackendReset ==
  /\ backend.end = "open" /\ bsock # "none"
  /\ backend' = [backend EXCEPT !.end = "reset"]
  /\ UNCHANGED <<daemon, stage, client, csock, bsock, up, down>>

-----------------------------------------------------------------------------
(* Before the bridge.                                                      *)

ClosedClient ==
  IF ~Live(csock) THEN csock ELSE IF client.sent > up.read THEN "reset" ELSE "closed"

ClosedBackend ==
  IF ~Live(bsock) THEN bsock
  ELSE IF backend.sent > down.taken THEN "reset" ELSE "closed"

GiveUp ==
  /\ stage' = "over"
  /\ csock' = ClosedClient
  /\ UNCHANGED <<daemon, peers, bsock, up, down>>

GoOn(s) ==
  /\ stage' = s
  /\ UNCHANGED <<daemon, peers, csock, up, down>>

\* io.ReadFull of the first bytes.
PeekByte ==
  /\ daemon = "sslhmux" /\ stage = "early"
  /\ up.read < PeekLen /\ up.read < client.sent
  /\ up' = [up EXCEPT !.read = @ + 1]
  /\ UNCHANGED <<daemon, stage, peers, csock, bsock, down>>

\* All peeked, or the client stopped, or five seconds are over: with any byte
\* in hand the connection is routed.
EndPeek ==
  /\ daemon = "sslhmux" /\ stage = "early"
  /\ IF up.read = 0 THEN GiveUp ELSE GoOn("dialing") /\ UNCHANGED bsock

\* The handshake is over, or its ten seconds are.
Handshake ==
  /\ daemon = "ssltunnel" /\ stage = "early"
  /\ \/ client.end # "reset" /\ GoOn("dialing") /\ UNCHANGED bsock
     \/ GiveUp

\* The proxy takes n more bytes for the request, whatever they are.
Keep(n) == up' = [up EXCEPT !.read = @ + n, !.taken = @ + n, !.put = @ + n, !.kept = @ + n]

\* findHeader: with X-Split in what was read, another Read follows.
AfterRequest == {"split", "dialing"}

\* One Read of up to 16 KB, within a minute, is the request, a part of it, or
\* more than it.
ReadRequest ==
  /\ daemon = "proxy" /\ stage = "early"
  /\ \/ \E n \in 1..client.sent :
          /\ Keep(n)
          /\ stage' \in AfterRequest
          /\ UNCHANGED <<daemon, peers, csock, bsock, down>>
     \/ GiveUp

\* The second Read has no deadline, and its outcome is not looked at.
ReadSplit ==
  /\ stage = "split"
  /\ \/ \E n \in 1..(client.sent - up.read) : Keep(n)
     \/ client.end # "open" /\ UNCHANGED up
  /\ stage' = "dialing"
  /\ UNCHANGED <<daemon, peers, csock, bsock, down>>

\* There is no backend (sslhmux: none configured, or its own port; proxy: a host
\* that is not allowed, 403), or the dial fails or times out (proxy: 502).
Dial ==
  /\ stage = "dialing"
  /\ \/ GoOn(IF daemon = "proxy" THEN "replying" ELSE "bridging") /\ bsock' = "open"
     \/ GiveUp

\* The proxy's status line; the deferred Closes if it cannot be written.
Reply ==
  /\ stage = "replying"
  /\ IF client.end = "reset" \/ csock = "reset"
     THEN stage' = "over" /\ csock' = ClosedClient /\ bsock' = ClosedBackend
     ELSE stage' = "bridging" /\ UNCHANGED <<csock, bsock>>
  /\ UNCHANGED <<daemon, peers, up, down>>

-----------------------------------------------------------------------------
(* netbridge.Pipe, and the proxy's two goroutines.                         *)

UpGoes(l) == up' = [up EXCEPT !.pc = l]
DownGoes(l) == down' = [down EXCEPT !.pc = l]

Copying(x) == stage = "bridging" /\ x.pc = "copy"
InHand(x) == x.put < x.taken

\* MUTANT: the peeked bytes are not replayed.
UpReadPastPeek ==
  /\ Copying(up) /\ ~InHand(up)
  /\ Live(csock) /\ up.read < client.sent
  /\ up' = [up EXCEPT !.read = @ + 1, !.taken = up.read + 1, !.put = up.read]
  /\ UNCHANGED <<daemon, stage, peers, csock, bsock, down>>

\* The peeked bytes come first.
UpRead ==
  /\ Copying(up) /\ ~InHand(up)
  /\ \/ /\ up.taken < up.read
        /\ up' = [up EXCEPT !.taken = @ + 1]
     \/ /\ up.taken = up.read /\ Live(csock) /\ up.read < client.sent
        /\ up' = [up EXCEPT !.read = @ + 1, !.taken = @ + 1]
  /\ UNCHANGED <<daemon, stage, peers, csock, bsock, down>>

\* To a backend that has ended a write may still succeed.
UpWrite ==
  /\ Copying(up) /\ InHand(up)
  /\ bsock = "open" /\ backend.end # "reset"
  /\ backend.end = "open" => Passed - backend.got < Window
  /\ up' = [up EXCEPT !.put = @ + 1]
  /\ UNCHANGED <<daemon, stage, peers, csock, bsock, down>>

\* Reading the client or writing the backend fails.
UpFails ==
  /\ Copying(up)
  /\ IF InHand(up) THEN bsock # "open" \/ backend.end # "open"
                   ELSE up.taken = up.read /\ (~Live(csock) \/ client.end = "reset")
  /\ UpGoes(IF daemon = "proxy" THEN "eof" ELSE "close")
  /\ UNCHANGED <<daemon, stage, peers, csock, bsock, down>>

UpEof ==
  /\ Copying(up) /\ ~InHand(up)
  /\ Live(csock) /\ client.end = "fin" /\ up.taken = client.sent
  /\ UpGoes("eof")
  /\ UNCHANGED <<daemon, stage, peers, csock, bsock, down>>

\* MUTANT: the end of the request closes everything.
CloseWriteBoth ==
  /\ stage = "bridging" /\ up.pc = "eof"
  /\ UpGoes("close")
  /\ UNCHANGED <<daemon, stage, peers, csock, bsock, down>>

\* It fails on a connection that is gone; the proxy does not look.
CloseWrite ==
  /\ stage = "bridging" /\ up.pc = "eof"
  /\ IF bsock = "open" /\ backend.end # "reset"
     THEN bsock' = "half" /\ UpGoes("done")
     ELSE UpGoes(IF daemon = "proxy" THEN "done" ELSE "close") /\ UNCHANGED bsock
  /\ UNCHANGED <<daemon, stage, peers, csock, down>>

\* MUTANT: bytes are read without waiting for the write before.
DownReadAhead ==
  /\ Copying(down)
  /\ Live(bsock) /\ down.taken < backend.sent
  /\ down' = [down EXCEPT !.taken = @ + 1]
  /\ UNCHANGED <<daemon, stage, peers, csock, bsock, up>>

DownRead ==
  /\ Copying(down) /\ ~InHand(down)
  /\ Live(bsock) /\ down.taken < backend.sent
  /\ down' = [down EXCEPT !.taken = @ + 1]
  /\ UNCHANGED <<daemon, stage, peers, csock, bsock, up>>

DownWrite ==
  /\ Copying(down) /\ InHand(down)
  /\ csock = "open" /\ client.end # "reset"
  /\ down.put - client.got < Window
  /\ down' = [down EXCEPT !.put = @ + 1]
  /\ UNCHANGED <<daemon, stage, peers, csock, bsock, up>>

DownOver ==
  IF InHand(down) THEN csock # "open" \/ client.end = "reset"
  ELSE \/ ~Live(bsock) \/ backend.end = "reset"
       \/ backend.end # "open" /\ down.taken = backend.sent

\* MUTANT: the end of the backend is not passed on.
DownEndsQuietly ==
  /\ Copying(down) /\ DownOver
  /\ DownGoes("done")
  /\ UNCHANGED <<daemon, stage, peers, csock, bsock, up>>

\* The copy is over, cleanly or not.  The proxy only tells the client.
DownEnds ==
  /\ Copying(down) /\ DownOver
  /\ \/ daemon # "proxy" /\ DownGoes("close") /\ UNCHANGED csock
     \/ /\ daemon = "proxy" /\ DownGoes("done")
        /\ csock' = IF csock = "open" /\ client.end # "reset" THEN "half" ELSE csock
  /\ UNCHANGED <<daemon, stage, peers, bsock, up>>

\* closeBoth: the client's socket, then the backend's.
CloseBoth(pc, next) ==
  /\ \/ pc = "close" /\ next = "closing" /\ csock' = ClosedClient /\ UNCHANGED bsock
     \/ pc = "closing" /\ next = "done" /\ bsock' = ClosedBackend /\ UNCHANGED csock
  /\ UNCHANGED <<daemon, stage, peers>>

UpCloses ==
  \E l \in {"closing", "done"} : CloseBoth(up.pc, l) /\ UpGoes(l) /\ UNCHANGED down

DownCloses ==
  \E l \in {"closing", "done"} : CloseBoth(down.pc, l) /\ DownGoes(l) /\ UNCHANGED up

\* Both goroutines are done; the deferred closeBoth, or the two deferred Closes.
Return ==
  /\ stage = "bridging" /\ up.pc = "done" /\ down.pc = "done"
  /\ stage' = "over" /\ csock' = ClosedClient /\ bsock' = ClosedBackend
  /\ UNCHANGED <<daemon, peers, up, down>>

-----------------------------------------------------------------------------
Early == EndPeek \/ Handshake \/ ReadRequest \/ ReadSplit \/ Dial \/ Reply
UpStep == UpRead \/ UpWrite \/ UpFails \/ UpEof \/ CloseWrite \/ UpCloses
DownStep == DownRead \/ DownWrite \/ DownEnds \/ DownCloses

Next ==
  \/ ClientSend \/ ClientFin \/ ClientReset \/ ClientRead
  \/ BackendSend \/ BackendRead \/ BackendEof \/ BackendEnd \/ BackendReset
  \/ PeekByte \/ Early \/ UpStep \/ DownStep \/ Return

Spec == Init /\ [][Next]_vars

\* The goroutines run, deadlines bound what comes before the bridge (ReadSplit has
\* none and waits for the client), both peers take what they are sent, and a
\* backend that was told ends.
Fairness ==
  /\ WF_vars(Early) /\ WF_vars(UpStep) /\ WF_vars(DownStep) /\ WF_vars(Return)
  /\ WF_vars(ClientRead) /\ WF_vars(BackendRead) /\ WF_vars(BackendEof)
  /\ WF_vars(backend.eof /\ BackendEnd)

FairSpec == Spec /\ Fairness

-----------------------------------------------------------------------------
(* Properties.                                                             *)

\* Copied bytes are bytes sent, and a goroutine holds one piece at a time.
TypeOK ==
  /\ daemon \in {"ssltunnel", "sslhmux", "proxy"}
  /\ stage \in {"early", "split", "dialing", "replying", "bridging", "over"}
  /\ client.end \in {"open", "fin", "reset"}
  /\ backend.end \in {"open", "answered", "quit", "reset"} /\ backend.eof \in BOOLEAN
  /\ csock \in {"open", "half", "closed", "reset"}
  /\ bsock \in {"none", "open", "half", "closed", "reset"}
  /\ up.pc \in {"copy", "eof", "close", "closing", "done"}
  /\ down.pc \in {"copy", "close", "closing", "done"}
  /\ 0 <= up.kept /\ 0 <= backend.got /\ backend.got <= Passed /\ up.put <= up.taken
  /\ up.taken <= up.put + 1 /\ up.taken <= up.read /\ up.read <= client.sent
  /\ 0 <= client.got /\ client.got <= down.put /\ down.put <= down.taken
  /\ down.taken <= down.put + 1 /\ down.taken <= backend.sent

\* A client that finishes its request and waits gets the whole answer of a
\* backend that read to the end of the request: the half-close, and closing only
\* after everything from the client was read (Pipe).
AnswerArrives ==
  backend.end = "answered" ~> client.got = backend.sent \/ client.end = "reset"

\* What the client sends reaches the backend, the peeked bytes too, unless one
\* of the two stops first, there is no backend, or the proxy took it for a part
\* of the request or waits for the request's second half.
RequestArrives ==
  \A n \in 1..MaxUp :
    client.sent >= n ~> \/ backend.got + up.kept >= n \/ backend.end # "open"
                        \/ client.end = "reset" \/ stage \in {"split", "over"}

\* Once one side has finished or failed, the handler returns with both sockets
\* closed: nobody waits on a peer that is gone.  The proxy does not end with its
\* backend: it tells the client, and waits for it to end.
EndsWithPeers ==
  client.end # "open" \/ (backend.end # "open" /\ daemon # "proxy")
    ~> stage = "over" /\ ~Live(csock) /\ ~Live(bsock)

=============================================================================
