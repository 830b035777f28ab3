------------------------------- MODULE Ftp -------------------------------
(***************************************************************************)
(* The file transfer of ftp/: myftpc sends a request for each command that *)
(* is typed and reads the reply, proc() of myftpd handles one message at a *)
(* time, and both share a TCP connection.                                  *)
(*                                                                         *)
(* The connection is a sequence of words each way.  A word is a header     *)
(* (struct myftph) or as much data: since either side takes whatever comes *)
(* next for a header, data has the fields of one, with a type that no case *)
(* of the programs has.  A name is one word long.  A packet arrives as a   *)
(* whole: recv() waits until there is something and then returns what it   *)
(* was asked for, or what there is.                                        *)
(*                                                                         *)
(* main() of myftpd compares the result of fork() with pid, which has no   *)
(* value, instead of assigning it.  This is the connection of a server     *)
(* that finds 0 there: the parent serves, the child waits for others.      *)
(*                                                                         *)
(* The locals of proc() have no value when it is called for the next       *)
(* message.  It is called from a loop that calls nothing else, and is      *)
(* compiled without optimisation, so they have the last one: hdr and fp.   *)
(***************************************************************************)
EXTENDS Integers, SequencesExt

CONSTANTS
  Names,        \* names of files and directories, as the user types them
  Dirs,         \* directories: a name that is a directory leads there
  Top, Home,    \* where both programs start, and what $HOME says
  Copied,       \* the names that get and put are used with: from and to
  DataWords,    \* what files contain
  Junk,         \* a word left in a buffer by something else
  InitFiles,    \* what both hosts may have: functions on Hosts, Dirs and Names
  DATASIZE,     \* the words of data in a packet
  MaxSize,      \* the words that a file of the server can grow to
  Backlog       \* the words left unread with which the user still goes on

Hosts == {"client", "server"}

ASSUME FtpAssumption ==
  /\ {Top, Home} \subseteq Dirs
  /\ IsFiniteSet(Names)
  /\ Copied \subseteq Names \X Names
  /\ DATASIZE \in Nat \ {0}
  /\ MaxSize \in Nat
  /\ Backlog \in Nat

QUIT == 1
PWD == 2
CWD == 3
LIST == 4
RETR == 5
STOR == 6
OK == 16
FILE_ERR == 18
UNKWN_ERR == 19
DATA == 32

VARIABLES
  toServer, toClient,   \* the words on their way
  files,                \* the files of both hosts
  cwd,                  \* the working directory of both processes
  cpc,                  \* what the client waits for
  cmd,                  \* the last command: its name and its arguments
  code,                 \* the code that is in pkt_data of the client
  at,                   \* put: the words read from the file, -1 before OK
  serving,              \* whether proc() is called again
  hdr,                  \* the header that is in pkt_data of the server
  fp,                   \* the file that proc() writes, its file_name, or closed
  astray                \* history: a reply was not read to its end

clientVars == <<cpc, cmd, code, at, astray>>
serverVars == <<serving, hdr, fp>>
vars == <<toServer, toClient, files, cwd, clientVars, serverVars>>

Word(v) == [type |-> 0, code |-> 0, length |-> v]
Hdr(type, c, length) == [type |-> type, code |-> c, length |-> length]
JunkWords(n) == [i \in 1 .. n |-> Word(Junk)]
Words == {Word(v) : v \in Names \cup DataWords \cup {Junk}}
Headers == [type: {QUIT, PWD, CWD, LIST, RETR, STOR, OK, FILE_ERR, UNKWN_ERR, DATA},
            code: {0, 1, 2, 5}, length: Nat]

\* A plain file has data.  A name can also be free, a file or a directory
\* without permissions, or a link to nothing.
Plain == {"file", "locked"}
Kinds == Plain \cup {"none", "dir", "closed", "dangling"}
Entries == [kind : Kinds, data : Seq(Words)]

\* A directory can be entered, and no file is larger than files can grow.
ASSUME FilesAssumption ==
  \A f \in InitFiles :
    /\ f \in [Hosts -> [Dirs -> [Names -> Entries]]]
    /\ \A h \in Hosts, d \in Dirs, n \in Names :
         /\ f[h][d][n].kind = "dir" => n \in Dirs
         /\ Len(f[h][d][n].data) <= MaxSize

Commands == {"none", "quit", "pwd", "cd", "dir", "get", "put"}
Waits == {"prompt", "quit", "pwd", "cd", "dir", "listing", "get", "data", "put", "send", "gone"}
NoFile == <<"closed">>
NoCommand == <<"none", Junk, Junk>>

TypeOK ==
  /\ toServer \in Seq(Words \cup Headers)
  /\ toClient \in Seq(Words \cup Headers)
  /\ files \in [Hosts -> [Dirs -> [Names -> Entries]]]
  /\ cwd \in [Hosts -> Dirs]
  /\ cpc \in Waits
  /\ cmd \in Commands \X (Names \cup {Junk}) \X (Names \cup {Junk})
  /\ code \in {0, 1, 2, 5}
  /\ at \in Nat \cup {-1}
  /\ serving \in BOOLEAN
  /\ hdr \in Words \cup Headers
  /\ fp = NoFile \/ fp \in Dirs \X Names
  /\ astray \in BOOLEAN

-----------------------------------------------------------------------------
\* Files.
Entry(h, n) == files[h][cwd[h]][n]
CanRead(e) == e.kind \in {"file", "dir"}      \* fopen(n, "rb"): a directory opens
CanWrite(e) == e.kind \in {"file", "none", "dangling"}          \* fopen(n, "wb")
Holding(data) == [kind |-> "file", data |-> data]
Put(fs, h, where, data) == [fs EXCEPT ![h][where[1]][where[2]] = Holding(data)]
Here(h, n) == <<cwd[h], n>>

\* Slip: the result of chdir() is not looked at.
LeadsSlip(h, n) == IF Entry(h, n).kind = "none" THEN {} ELSE {n}

\* Where chdir() leads, {} when it fails.
Leads(h, n) == IF Entry(h, n).kind = "dir" THEN {n} \cap Dirs ELSE {}

\* What recv() takes: the first n words, or what there is.
Payload(stream) == SubSeq(stream, 2, Min({1 + Head(stream).length, Len(stream)}))
After(stream, n) == SubSeq(stream, n + 1, Len(stream))

\* The packets that a file is sent in.  A small one has the code that is in
\* the buffer already.
PacketCount(data) == (Len(data) + DATASIZE - 1) \div DATASIZE

\* Slip: a word of the buffer is kept free.
ChunkSlip(data, i) == SubSeq(data, (i - 1) * DATASIZE + 1, Min({i * DATASIZE - 1, Len(data)}))

Chunk(data, i) == SubSeq(data, (i - 1) * DATASIZE + 1, Min({i * DATASIZE, Len(data)}))
Packet(c, data) == <<Hdr(DATA, c, Len(data))>> \o data
Packets(data, small) ==
  IF Len(data) <= DATASIZE
  THEN Packet(small, data)
  ELSE FlattenSeq([i \in 1 .. PacketCount(data) |->
         Packet(IF i < PacketCount(data) THEN 1 ELSE 0, Chunk(data, i))])
LastOf(data, small) ==
  IF Len(data) <= DATASIZE THEN Hdr(DATA, small, Len(data))
                           ELSE Hdr(DATA, 0, Len(Chunk(data, PacketCount(data))))

Init ==
  /\ toServer = << >>
  /\ toClient = << >>
  /\ files \in InitFiles
  /\ cwd = [h \in Hosts |-> Top]
  /\ cpc = "prompt"
  /\ cmd = NoCommand
  /\ code = 0
  /\ at = -1
  /\ serving = TRUE
  /\ hdr = Word(Junk)
  /\ fp = NoFile
  /\ astray = FALSE

-----------------------------------------------------------------------------
(***************************************************************************)
(* The client: commands.                                                   *)
(***************************************************************************)
Typed(op, from, to, wait) ==
  /\ cpc = "prompt"
  /\ Len(toClient) <= Backlog
  /\ cpc' = wait
  /\ cmd' = <<op, from, to>>
  /\ at' = -1

\* What the user types makes a request, with a name or without one.  Requests
\* with a name go out of pkt_data, with the code that is in there.
Request(type) == toServer' = Append(toServer, Hdr(type, 0, 0))
RequestOf(type, n) == toServer' = toServer \o <<Hdr(type, code, 1), Word(n)>>

quit_proc == Typed("quit", Junk, Junk, "quit") /\ Request(QUIT)
pwd_proc == Typed("pwd", Junk, Junk, "pwd") /\ Request(PWD)
cd_proc ==
  \/ Typed("cd", Junk, Junk, "cd") /\ Request(CWD)
  \/ \E n \in Names : Typed("cd", n, Junk, "cd") /\ RequestOf(CWD, n)
dir_proc ==
  \/ Typed("dir", Junk, Junk, "dir") /\ Request(LIST)
  \/ \E n \in Names : Typed("dir", n, Junk, "dir") /\ RequestOf(LIST, n)
get_proc ==
  \E pair \in Copied :
    Typed("get", pair[1], pair[2], "get") /\ RequestOf(RETR, pair[1])
put_proc ==
  \E pair \in Copied :
    /\ CanRead(Entry("client", pair[1]))
    /\ Typed("put", pair[1], pair[2], "put")
    /\ RequestOf(STOR, pair[2])

Ask ==
  /\ quit_proc \/ pwd_proc \/ cd_proc \/ dir_proc \/ get_proc \/ put_proc
  /\ UNCHANGED <<toClient, files, cwd, code, astray, serverVars>>

\* lcd: to a directory of the client, or home.
lcd_proc ==
  /\ cpc = "prompt"
  /\ \E d \in {Home} \cup UNION {Leads("client", n) : n \in Names} :
       cwd' = [cwd EXCEPT !["client"] = d]
  /\ cmd' = NoCommand
  /\ UNCHANGED <<toServer, toClient, files, cpc, code, at, astray, serverVars>>

\* The user interrupts the client, or its input ends.
Kill ==
  /\ cpc # "gone"
  /\ cpc' = "gone"
  /\ UNCHANGED <<toServer, toClient, files, cwd, cmd, code, at, astray, serverVars>>

-----------------------------------------------------------------------------
(***************************************************************************)
(* The client: replies.                                                    *)
(***************************************************************************)
\* recv() of a header: the next word, whatever it is.
Reads(wait) == cpc = wait /\ toClient # << >>
Next1 == Head(toClient)
Took(n) == toClient' = After(toClient, n)

\* Slip: the client takes every packet for the last one.
NextPacketSlip(wait) == "prompt"

\* A packet with code 0 is the last one.
NextPacket(wait) == IF Next1.code = 0 THEN "prompt" ELSE wait
To(wait) ==
  /\ cpc' = wait
  /\ cmd' = IF wait \in {"prompt", "gone"} THEN NoCommand ELSE cmd
ClientKeeps == UNCHANGED <<toServer, cwd, serverVars>>

\* quit: the client ends on OK.
RecvQuit ==
  /\ Reads("quit")
  /\ Took(1)
  /\ To(IF Next1.type = OK THEN "gone" ELSE "prompt")
  /\ ClientKeeps /\ UNCHANGED <<files, code, at, astray>>

\* pwd reads a whole packet at once, into pkt_data.
RecvPwd ==
  /\ Reads("pwd")
  /\ Took(DATASIZE + 1)
  /\ code' = Next1.code
  /\ To("prompt")
  /\ ClientKeeps /\ UNCHANGED <<files, at, astray>>

RecvCd ==
  /\ Reads("cd")
  /\ Took(1)
  /\ To("prompt")
  /\ ClientKeeps /\ UNCHANGED <<files, code, at, astray>>

\* dir: only after OK 1 the client reads data.
RecvDir ==
  /\ Reads("dir")
  /\ Took(1)
  /\ To(IF Next1.type = OK /\ Next1.code = 1 THEN "listing" ELSE "prompt")
  /\ astray' = (astray \/ Next1.type = DATA)
  /\ ClientKeeps /\ UNCHANGED <<files, code, at>>

\* A packet of the listing.
RecvListing ==
  /\ Reads("listing")
  /\ IF Next1.type = DATA
     THEN Took(1 + Next1.length) /\ To(NextPacket("listing"))
     ELSE Took(1) /\ To("prompt")
  /\ ClientKeeps /\ UNCHANGED <<files, code, at, astray>>

\* get: after OK 1 the client makes the file, or leaves the data unread.
RecvGetHead ==
  /\ Reads("get")
  /\ Took(1)
  /\ IF Next1.type = OK /\ Next1.code = 1 /\ CanWrite(Entry("client", cmd[3]))
     THEN /\ files' = Put(files, "client", Here("client", cmd[3]), << >>)
          /\ To("data")
     ELSE To("prompt") /\ UNCHANGED files
  /\ astray' = (astray \/ (Next1.type = OK /\ ~CanWrite(Entry("client", cmd[3]))))
  /\ ClientKeeps /\ UNCHANGED <<code, at>>

\* A packet of the file; anything else is skipped.
RecvGetData ==
  /\ Reads("data")
  /\ IF Next1.type = DATA
     THEN LET e == Entry("client", cmd[3])
          IN  /\ Took(1 + Next1.length)
              /\ files' = IF Next1.code \in {0, 1}
                          THEN Put(files, "client", Here("client", cmd[3]),
                                   e.data \o Payload(toClient))
                          ELSE files
              /\ To(NextPacket("data"))
     ELSE Took(1) /\ UNCHANGED <<files, cpc, cmd>>
  /\ ClientKeeps /\ UNCHANGED <<code, at, astray>>

\* put: the file is sent after OK 2.
RecvPutHead ==
  /\ Reads("put")
  /\ Took(1)
  /\ IF Next1.type = OK /\ Next1.code = 2 THEN To("send") /\ at' = 0
                                          ELSE To("prompt") /\ UNCHANGED at
  /\ ClientKeeps /\ UNCHANGED <<files, code, astray>>

\* The next packet; it is marked 0 when it is the last one.
LastChunk(size, done) == size - done <= DATASIZE
SendChunk ==
  /\ cpc = "send"
  /\ LET source == Entry("client", cmd[2])
         last == LastChunk(Len(source.data), at)
         data == SubSeq(source.data, at + 1, Min({at + DATASIZE, Len(source.data)}))
     IN  /\ source.kind = "file"
         /\ toServer' = toServer \o Packet(IF last THEN 0 ELSE 1, data)
         /\ code' = IF last THEN 0 ELSE 1
         /\ at' = at + Len(data)
         /\ cpc' = IF last THEN "prompt" ELSE "send"
  /\ UNCHANGED <<toClient, files, cwd, cmd, astray, serverVars>>

\* A directory is larger than a packet and cannot be read: "read error".
SendFails ==
  /\ cpc = "send"
  /\ Entry("client", cmd[2]).kind = "dir"
  /\ code' = 1
  /\ cpc' = "prompt"
  /\ UNCHANGED <<toServer, toClient, files, cwd, cmd, at, astray, serverVars>>

Receive ==
  \/ RecvQuit \/ RecvPwd \/ RecvCd \/ RecvDir \/ RecvListing
  \/ RecvGetHead \/ RecvGetData \/ RecvPutHead

-----------------------------------------------------------------------------
(***************************************************************************)
(* The server: proc() takes a header and, when that has a length, data.    *)
(***************************************************************************)
Serves(type) ==
  /\ serving
  /\ toServer # << >>
  /\ Head(toServer).type = type
Request1 == Head(toServer)
NameIn == toServer[2].length
TakesAll(n) == toServer' = After(toServer, 1 + n)
Reply(words) == toClient' = toClient \o words
Says(type, c) == Reply(<<Hdr(type, c, 0)>>)
ServerKeeps == UNCHANGED clientVars

ServeQuit ==
  /\ Serves(QUIT)
  /\ TakesAll(0)
  /\ Says(OK, 0)
  /\ serving' = FALSE
  /\ hdr' = Request1
  /\ ServerKeeps /\ UNCHANGED <<files, cwd, fp>>

\* pwd: the path, in a packet that is always sent in full.
ServePwd ==
  /\ Serves(PWD)
  /\ TakesAll(0)
  /\ Reply(<<Hdr(OK, 0, 1)>> \o JunkWords(DATASIZE))
  /\ hdr' = Hdr(OK, 0, 1)
  /\ fp' = NoFile
  /\ ServerKeeps /\ UNCHANGED <<files, cwd, serving>>

\* Slip: there is no reply to an error that no case has.
CwdErrorSlip(kind) ==
  CASE kind \in {"none", "dangling"} -> Says(FILE_ERR, 0)
    [] kind = "closed" -> Says(FILE_ERR, 1)
    [] OTHER -> UNCHANGED toClient

CwdError(kind) ==
  CASE kind \in {"none", "dangling"} -> Says(FILE_ERR, 0)
    [] kind = "closed" -> Says(FILE_ERR, 1)
    [] kind \in Plain -> Says(UNKWN_ERR, 5)

ServeCwd ==
  /\ Serves(CWD)
  /\ TakesAll(Request1.length)
  /\ IF Request1.length = 0
     THEN cwd' = [cwd EXCEPT !["server"] = Home] /\ Says(OK, 0)
     ELSE \/ \E d \in Leads("server", NameIn) :
               cwd' = [cwd EXCEPT !["server"] = d] /\ Says(OK, 0)
          \/ /\ Leads("server", NameIn) = {}
             /\ CwdError(Entry("server", NameIn).kind)
             /\ UNCHANGED cwd
  /\ hdr' = Request1
  /\ ServerKeeps /\ UNCHANGED <<files, serving, fp>>

\* dir of a directory: a line for each name, . and .., after OK 1.  The loop
\* over the names stays where it is when one leads to nothing: full packets of
\* what came before it, in any order, have been sent, and hdr is not read again.
Present(d) == {n \in Names : files["server"][d][n].kind # "none"}
Listing(d) == JunkWords(2 + Cardinality(Present(d)))
Stuck(d) == \E n \in Names : files["server"][d][n].kind = "dangling"
Shown(d) == {n \in Present(d) : files["server"][d][n].kind # "dangling"}
FullPackets(k) == FlattenSeq([i \in 1 .. k |-> Packet(1, JunkWords(DATASIZE))])
ListDir(d) ==
  IF Stuck(d)
  THEN /\ \E k \in 0 .. (1 + Cardinality(Shown(d))) \div DATASIZE :
            Reply(<<Hdr(OK, 1, 0)>> \o FullPackets(k))
       /\ serving' = FALSE
       /\ hdr' = Request1
  ELSE /\ Reply(<<Hdr(OK, 1, 0)>> \o Packets(Listing(d), 0))
       /\ hdr' = LastOf(Listing(d), 0)
       /\ UNCHANGED serving

ListError(c) == Says(FILE_ERR, c) /\ hdr' = Request1 /\ UNCHANGED serving

\* dir of a plain file: data without OK, of a length that has no value.
ListPlain ==
  /\ \E n \in 0 .. DATASIZE :
       Reply(Packet(0, JunkWords(n))) /\ hdr' = Hdr(DATA, 0, n)
  /\ UNCHANGED serving

ServeList ==
  /\ Serves(LIST)
  /\ TakesAll(Request1.length)
  /\ IF Request1.length = 0
     THEN ListDir(cwd["server"])
     ELSE LET kind == Entry("server", NameIn).kind
          IN  \/ kind \in {"none", "dangling"} /\ ListError(0)
              \/ kind = "closed" /\ ListError(1)
              \/ \E d \in Leads("server", NameIn) : ListDir(d)
              \/ kind \in Plain /\ ListPlain
  /\ ServerKeeps /\ UNCHANGED <<files, cwd, fp>>

\* get: OK 1 and the file, unless it cannot be read, which is seen too late.
Opened(e) == /\ IF e.kind = "dir"
                THEN Says(OK, 1) /\ hdr' = Hdr(RETR, 1, Request1.length)
                ELSE /\ Reply(<<Hdr(OK, 1, 0)>> \o Packets(e.data, Request1.code))
                     /\ hdr' = LastOf(e.data, Request1.code)
ServeRetr ==
  /\ Serves(RETR)
  /\ TakesAll(Request1.length)
  /\ LET e == Entry("server", NameIn)
     IN  \/ CanRead(e) /\ Opened(e)
         \/ ~CanRead(e) /\ hdr' = Request1
                        /\ Says(FILE_ERR, IF e.kind \in {"locked", "closed"} THEN 1 ELSE 0)
  /\ fp' = NoFile
  /\ ServerKeeps /\ UNCHANGED <<files, cwd, serving>>

\* put: the file is made empty and stays open.
ServeStor ==
  /\ Serves(STOR)
  /\ TakesAll(Request1.length)
  /\ LET e == Entry("server", NameIn)
     IN  \/ /\ CanWrite(e)
            /\ files' = Put(files, "server", Here("server", NameIn), << >>)
            /\ fp' = Here("server", NameIn)
            /\ Says(OK, 2)
         \/ /\ ~CanWrite(e)
            /\ fp' = NoFile
            /\ IF e.kind = "locked" THEN Says(FILE_ERR, 1) ELSE Says(UNKWN_ERR, 5)
            /\ UNCHANGED files
  /\ hdr' = Request1
  /\ ServerKeeps /\ UNCHANGED <<cwd, serving>>

\* Slip: the file is opened again with "wb".
StoredSlip(c, data) ==
  IF fp = NoFile
  THEN serving' = FALSE /\ UNCHANGED <<files, fp>>
  ELSE /\ files' = Put(files, "server", fp, data)
       /\ fp' = IF c = 0 THEN NoFile ELSE Here("server", fp[2])
       /\ UNCHANGED serving

\* A packet of the file.  After the last one it is closed; after another one
\* closed and opened again to append.  Without a file proc() crashes.
Stored(c, data) ==
  IF fp = NoFile
  THEN serving' = FALSE /\ UNCHANGED <<files, fp>>
  ELSE LET old == files["server"][fp[1]][fp[2]].data
       IN  /\ files' = Put(files, "server", fp,
                           SubSeq(old \o data, 1, Min({MaxSize, Len(old \o data)})))
           /\ fp' = IF c = 0 THEN NoFile ELSE Here("server", fp[2])
           /\ UNCHANGED serving

ServeData ==
  /\ Serves(DATA)
  /\ TakesAll(Request1.length)
  /\ Stored(Request1.code, Payload(toServer))
  /\ hdr' = Request1
  /\ ServerKeeps /\ UNCHANGED <<toClient, cwd>>

\* When the client is gone recv() returns 0, the header in pkt_data is the
\* last one, and proc() acts on it again: a packet that was not the last one
\* of its file is written again, with what is in the buffer; a reply goes to
\* a closed connection and ends the server, as does a file that is closed.
AtEof == serving /\ toServer = << >> /\ cpc = "gone"

StoreAgain ==
  /\ AtEof
  /\ hdr.type = DATA /\ fp # NoFile
  /\ Stored(hdr.code, JunkWords(hdr.length))
  /\ ServerKeeps /\ UNCHANGED <<toServer, toClient, cwd, hdr>>

EndsAtEof ==
  /\ AtEof
  /\ hdr.type \notin {0, OK}
  /\ hdr.type = DATA => fp = NoFile
  /\ serving' = FALSE
  /\ ServerKeeps /\ UNCHANGED <<toServer, toClient, files, cwd, hdr, fp>>

Serve ==
  \/ ServeQuit \/ ServePwd \/ ServeCwd \/ ServeList \/ ServeRetr \/ ServeStor
  \/ ServeData \/ StoreAgain \/ EndsAtEof

Next == Ask \/ lcd_proc \/ Kill \/ Receive \/ SendChunk \/ SendFails \/ Serve

Spec == Init /\ [][Next]_vars

\* Both programs go on while they have something to read or to send; the user
\* need not type anything.
FairSpec == Spec /\ WF_vars(Serve) /\ WF_vars(Receive) /\ WF_vars(SendChunk \/ SendFails)

-----------------------------------------------------------------------------
\* A reply is read to its end: after each command nothing is left that the
\* next one would take for its own reply, but for dir of a plain file and
\* get into a file that the client cannot make.
InSync == ~astray /\ cpc = "prompt" => toClient = << >>

\* The words of the files on a stream, without the headers.
DataIn(stream) ==
  LET upTo[i \in 0 .. Len(stream)] ==
        IF i = 0 THEN << >>
        ELSE IF stream[i].type = 0 THEN Append(upTo[i - 1], stream[i]) ELSE upTo[i - 1]
  IN  upTo[Len(stream)]

\* put: what the server has stored and what is on its way is what the client
\* has read so far, in the order of the file and without a gap.
PutArrives ==
  LET source == Entry("client", cmd[2])
      target == Entry("server", cmd[3])
  IN  ~astray /\ cmd[1] = "put" /\ at >= 0 /\ cpc # "gone" /\ source.kind = "file" =>
        target.data \o DataIn(toServer) = SubSeq(source.data, 1, at)

\* get: the file that the client has when it prompts again is the one that it
\* asked for.
Copies ==
  ~astray /\ cpc = "data" /\ cpc' = "prompt" =>
    files'["client"][cwd["client"]][cmd[3]].data = Entry("server", cmd[2]).data
GetCopies == [][Copies]_vars

\* put: the server never stores more than the client has sent.
SentOnly ==
  \A n \in Names : cmd[1] = "put" /\ n = cmd[3] /\ at >= 0 =>
    Len(Entry("server", n).data) <= at

\* Every command ends, but for get of a directory, get of a small file when an
\* earlier put of a directory has left its code in pkt_data, and dir of a
\* directory with a link to nothing.
Waiting == cpc \notin {"prompt", "gone"}
Excused ==
  \/ astray
  \/ (cpc = "listing" /\ ~serving)
  \/ /\ cmd[1] = "get"
     /\ LET e == Entry("server", cmd[2])
        IN  \/ e.kind = "dir"
            \/ e.kind = "file" /\ code = 1 /\ Len(e.data) <= DATASIZE
CommandEnds == (Waiting /\ ~Excused) ~> (~Waiting \/ Excused)
=============================================================================
