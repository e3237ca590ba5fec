-------------------------------- MODULE Options --------------------------------
(***************************************************************************)
(* How DhcpServer::run reads a datagram: receiveBytes writes it over the   *)
(* one read_buffer of the thread, and FindOptionData walks over the bytes  *)
(* of its options.  What is read here are the fields of the datagrams of   *)
(* DhcpServer.                                                             *)
(***************************************************************************)
EXTENDS Integers, SequencesExt, FiniteSetsExt

CONSTANTS
  BufferSize,     \* the part of read_buffer after the magic cookie that the
                  \* datagrams are written to
  Garbage,        \* what may be in it before the first datagram
  Datagrams,      \* what can arrive at the server's port
  ServerName,     \* server_host_name_, <<>> if gethostname failed
  MaxReceived     \* bound: the datagrams received in a behaviour

Byte == 0 .. 255

\* The option codes run looks for, PAD and END.
option_PAD == 0
option_HOSTNAME == 12
option_REQUESTEDIPADDRESS == 50
option_DHCPMESSAGETYPE == 53
option_SERVERIDENTIFIER == 54
option_CLIENTIDENTIFIER == 61
option_END == 255
SizeOfDword == 4
MaxHostNameLength == 256

\* A datagram: whether it begins as a BOOTREQUEST with a magic cookie, and the
\* bytes of its options: those of a list of options and END, or what is left of
\* them in a truncated datagram.  An option is a PAD, or a code, a length, and
\* as many bytes if the sender is right.
OptionType == [code : Byte \ {option_END}, length : Byte, data : Seq(Byte)]
DatagramType == [bootRequest : BOOLEAN, list : Seq(OptionType), bytes : Seq(Byte)]

EncodeOption(o) ==
  IF o.code = option_PAD THEN <<option_PAD>> ELSE <<o.code, o.length>> \o o.data
Encode(list) == FlattenSeq([i \in DOMAIN list |-> EncodeOption(list[i])]) \o <<option_END>>

ASSUME OptionsAssumption ==
  /\ BufferSize \in Nat
  /\ Garbage \subseteq [1 .. BufferSize -> Byte]
  /\ \A d \in Datagrams : /\ d \in DatagramType
                          /\ IsPrefix(d.bytes, Encode(d.list))
                          /\ Len(d.bytes) <= BufferSize
  /\ ServerName \in Seq(Byte \ {0}) /\ Len(ServerName) < MaxHostNameLength
  /\ MaxReceived \in Nat

VARIABLES
  read_buffer,
  received,     \* the last datagram
  fields,       \* what run reads of it
  count         \* the datagrams received

vars == <<read_buffer, received, fields, count>>

-----------------------------------------------------------------------------
(***************************************************************************)
(* FindOptionData.                                                         *)
(***************************************************************************)
\* Slips: the length byte itself is not skipped; the walk ends with the buffer.
PositionShort(code, options, options_size) ==
  LET from[i \in Nat] ==
        CASE i >= options_size -> 0
          [] i < options_size /\ options[i] = option_PAD -> from[i + 1]
          [] i < options_size /\ options[i] = option_END -> 0
          [] i < options_size /\ options[i] = code -> i
          [] OTHER -> from[i + 1 + options[i + 1]]
  IN IF options_size > 2 THEN from[1] ELSE 0

PositionInBuffer(code, options, options_size) ==
  LET from[i \in Nat] ==
        CASE i >= BufferSize -> 0
          [] i < BufferSize /\ options[i] = option_PAD -> from[i + 1]
          [] i < BufferSize /\ options[i] = option_END -> 0
          [] i < BufferSize /\ options[i] = code -> i
          [] OTHER -> from[i + 2 + options[i + 1]]
  IN IF options_size > 2 THEN from[1] ELSE 0

\* Where the first option with a code begins, or 0.  The walk looks at the bytes
\* of the datagram only: a code in the last one is not found.
Position(code, options, options_size) ==
  LET from[i \in Nat] ==
        CASE i >= options_size -> 0
          [] i < options_size /\ options[i] = option_PAD -> from[i + 1]
          [] i < options_size /\ options[i] = option_END -> 0
          [] i < options_size /\ options[i] = code -> i
          [] OTHER -> from[i + 2 + options[i + 1]]
  IN IF options_size > 2 THEN from[1] ELSE 0

\* Bytes of read_buffer; where no datagram is written it holds zeros.
BytesAt(options, first, size) ==
  [j \in 1 .. size |-> IF first + j - 1 <= BufferSize THEN options[first + j - 1] ELSE 0]

\* The data of that option, as many bytes as its length byte says: it may reach
\* past the end of the datagram, into what was in the buffer before.
FindOptionData(code, options, options_size) ==
  LET i == Position(code, options, options_size)
  IN [found |-> i # 0,
      data |-> IF i = 0 THEN <<>> ELSE BytesAt(options, i + 2, options[i + 1])]

NoOption == [found |-> FALSE, data |-> <<>>]

SearchedCodes ==
  {option_HOSTNAME, option_REQUESTEDIPADDRESS, option_DHCPMESSAGETYPE,
   option_SERVERIDENTIFIER, option_CLIENTIDENTIFIER}

-----------------------------------------------------------------------------
(***************************************************************************)
(* What run reads of a datagram.                                           *)
(***************************************************************************)
\* Option 61, of any length.
GetIdentifier(options, options_size) ==
  FindOptionData(option_CLIENTIDENTIFIER, options, options_size)

\* Options 50 and 54: of the wrong length they are as good as missing.
DwordOption(code, options, options_size) ==
  LET o == FindOptionData(code, options, options_size)
  IN IF Len(o.data) = SizeOfDword THEN o ELSE NoOption

\* 1 to 8, or 0 (NONE) for a datagram that is passed over.
GetDHCPMessageType(options, options_size) ==
  LET data == FindOptionData(option_DHCPMESSAGETYPE, options, options_size).data
  IN IF Len(data) = 1 /\ data[1] \in 1 .. 8 THEN data[1] ELSE 0

\* The bytes copied to client_host_name, one more than the option has.
GetRequestClientName(options, options_size) ==
  LET i == Position(option_HOSTNAME, options, options_size)
  IN IF i = 0 THEN <<>>
     ELSE BytesAt(options, i + 2, Min({options[i + 1] + 1, MaxHostNameLength - 1}))

\* What _stricmp sees of a char array that ends in NULs: the bytes before the
\* first.  (Upper and lower case are not told apart here.)
CString(chars) ==
  SubSeq(chars, 1, SelectInSeq(chars \o <<0>>, LAMBDA c : c = 0) - 1)

IsOwnHostName(options, options_size) ==
  /\ ServerName # <<>>
  /\ CString(GetRequestClientName(options, options_size)) = ServerName

Discover == 1
Request == 3
Nothing ==
  [type |-> 0, ownHostName |-> FALSE, clientIdentifier |-> NoOption,
   requestedIp |-> NoOption, serverIdentifier |-> NoOption]

\* run reads on only as long as the datagram may concern it.
Read(options, options_size) ==
  LET type == GetDHCPMessageType(options, options_size)
      own == IsOwnHostName(options, options_size)
      concerns == type \in {Discover, Request} /\ ~own
  IN [type |-> type,
      ownHostName |-> type \in {Discover, Request} /\ own,
      clientIdentifier |->
        IF concerns THEN GetIdentifier(options, options_size) ELSE NoOption,
      requestedIp |->
        IF concerns /\ type = Request
        THEN DwordOption(option_REQUESTEDIPADDRESS, options, options_size) ELSE NoOption,
      serverIdentifier |->
        IF concerns /\ type = Request
        THEN DwordOption(option_SERVERIDENTIFIER, options, options_size) ELSE NoOption]

-----------------------------------------------------------------------------
\* The datagram d written over the beginning of the buffer.
Overwritten(buffer, d) ==
  [i \in 1 .. BufferSize |-> IF i <= Len(d.bytes) THEN d.bytes[i] ELSE buffer[i]]

NoDatagram == [bootRequest |-> FALSE, list |-> <<>>, bytes |-> <<>>]

Init ==
  /\ read_buffer \in Garbage
  /\ received = NoDatagram
  /\ fields = Nothing
  /\ count = 0

\* receiveBytes, ParseReceiveData, GetOptions and the searches for options.
Receive(d) ==
  /\ count < MaxReceived /\ count' = count + 1
  /\ received' = d
  /\ read_buffer' = Overwritten(read_buffer, d)
  /\ fields' = IF d.bootRequest THEN Read(read_buffer', Len(d.bytes)) ELSE Nothing

\* The thread ends; run, when a server is started again, has a new buffer.
RunAgain ==
  /\ read_buffer' \in Garbage
  /\ received' = NoDatagram
  /\ fields' = Nothing
  /\ count' = 0

Next == RunAgain \/ \E d \in Datagrams : Receive(d)

Spec == Init /\ [][Next]_vars

-----------------------------------------------------------------------------
(***************************************************************************)
(* Properties.                                                             *)
(***************************************************************************)
IsComplete(d) == d.bootRequest /\ d.bytes = Encode(d.list)
IsWellFormed(d) ==
  IsComplete(d) /\ \A i \in DOMAIN d.list : d.list[i].length = Len(d.list[i].data)

\* The first option of a list with a code, as its sender means it.
Sent(list, code) ==
  LET S == {i \in DOMAIN list : list[i].code = code}
  IN IF S = {} THEN NoOption ELSE [found |-> TRUE, data |-> list[Min(S)].data]

SentDword(list, code) ==
  IF Len(Sent(list, code).data) = SizeOfDword THEN Sent(list, code) ELSE NoOption

\* Of a datagram that is complete and whose lengths are right, run reads the
\* options its sender put in, PADs, unknown options and bytes of data that
\* look like codes notwithstanding, and whatever was received before.
WellFormedIsReadAsSent ==
  IsWellFormed(received) =>
    LET list == received.list
        type == Sent(list, option_DHCPMESSAGETYPE).data
        concerns == fields.type \in {Discover, Request} /\ ~fields.ownHostName
    IN /\ fields.type = IF Len(type) = 1 /\ type[1] \in 1 .. 8 THEN type[1] ELSE 0
       /\ concerns => fields.clientIdentifier = Sent(list, option_CLIENTIDENTIFIER)
       /\ concerns /\ fields.type = Request =>
            /\ fields.requestedIp = SentDword(list, option_REQUESTEDIPADDRESS)
            /\ fields.serverIdentifier = SentDword(list, option_SERVERIDENTIFIER)

\* The datagram ends within one of the options run looks for, behind its length
\* byte, or has an option with a wrong length.
IsCutShort(d) ==
  \E n \in DOMAIN d.list :
    LET o == d.list[n]
        first == Len(Encode(SubSeq(d.list, 1, n - 1)))
        last == first + 1 + o.length + (IF o.code = option_HOSTNAME THEN 1 ELSE 0)
    IN \/ o.length # Len(o.data)
       \/ o.code \in SearchedCodes /\ first < Len(d.bytes) /\ Len(d.bytes) < last

\* What is read of a datagram depends on nothing received before it, truncated
\* or not, unless it ends within the data of an option: only then are bytes of
\* earlier datagrams, still in the buffer, taken for its own.
EarlierDatagramsAreForgotten ==
  received.bootRequest /\ ~IsCutShort(received) =>
    LET blank == [i \in 1 .. BufferSize |-> 0]
    IN fields = Read(Overwritten(blank, received), Len(received.bytes))

\* "Determine client host name" and "It is the server request." (run): so a
\* well-formed DISCOVER or REQUEST is taken for the server's own just when the
\* name its sender put in is the server's.  It is not: the name is copied with
\* the byte after it.
OwnHostNameIsRecognised ==
  IsWellFormed(received) /\ fields.type \in {Discover, Request} =>
    LET name == Sent(received.list, option_HOSTNAME)
    IN fields.ownHostName <=>
         ServerName # <<>> /\ name.found /\ CString(name.data) = ServerName
=============================================================================
