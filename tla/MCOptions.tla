------------------------------- MODULE MCOptions -------------------------------
(***************************************************************************)
(* Constants for model checking Options: lists of the options below,        *)
(* whole and truncated after every byte.                                    *)
(***************************************************************************)
EXTENDS Options

Opt(code, data) == [code |-> code, length |-> Len(data), data |-> data]

Pad == Opt(option_PAD, <<>>)
TypeDiscover == Opt(option_DHCPMESSAGETYPE, <<Discover>>)
TypeRequest == Opt(option_DHCPMESSAGETYPE, <<Request>>)
TypeUnknown == Opt(option_DHCPMESSAGETYPE, <<9>>)
TypeTooLong == Opt(option_DHCPMESSAGETYPE, <<Discover, Request>>)
OwnName == Opt(option_HOSTNAME, <<115, 55>>)
OwnNameWithNul == Opt(option_HOSTNAME, <<115, 55, 0>>)
AlmostOwnName == Opt(option_HOSTNAME, <<115>>)
OtherName == Opt(option_HOSTNAME, <<116>>)
\* Identifiers whose bytes look like a code, of no bytes, and with a length that
\* takes bytes of the next option.
IdentifierLikeCode == Opt(option_CLIENTIDENTIFIER, <<option_DHCPMESSAGETYPE>>)
IdentifierEmpty == Opt(option_CLIENTIDENTIFIER, <<>>)
IdentifierTooShort == [IdentifierLikeCode EXCEPT !.length = 2]
RequestedIp == Opt(option_REQUESTEDIPADDRESS, <<10, 0, 0, 7>>)
ServerIdentifier == Opt(option_SERVERIDENTIFIER, <<10, 0, 0, 1>>)
ServerIdentifierTooShort == Opt(option_SERVERIDENTIFIER, <<10, 0>>)
Unknown == Opt(55, <<option_DHCPMESSAGETYPE, 1>>)

MCLists ==
  ({Pad, TypeDiscover, TypeRequest, IdentifierTooShort, Unknown}
     \X {TypeDiscover, TypeRequest, OwnName, IdentifierLikeCode, RequestedIp})
  \cup
  {<<TypeUnknown>>, <<TypeTooLong>>, <<TypeDiscover, OwnNameWithNul>>,
   <<OwnName, Pad, TypeDiscover>>, <<TypeRequest, AlmostOwnName, Unknown>>,
   <<OtherName, TypeRequest>>,
   <<TypeRequest, IdentifierEmpty, RequestedIp>>,
   <<TypeRequest, RequestedIp, ServerIdentifier>>,
   <<ServerIdentifierTooShort, TypeRequest, ServerIdentifier>>}

MCDatagrams ==
  {[bootRequest |-> b, list |-> <<TypeDiscover>>, bytes |-> Encode(<<TypeDiscover>>)] :
     b \in BOOLEAN}
  \cup UNION {{[bootRequest |-> TRUE, list |-> l, bytes |-> p] : p \in Prefixes(Encode(l))} :
                l \in MCLists}

MCBufferSize == 24
\* A name whose last character is the code of Unknown.
MCServerName == <<115, 55>>

\* The stack before the first datagram: the end of a name, and zeros.
MCGarbage ==
  {[i \in 1 .. MCBufferSize |-> 0], [i \in 1 .. MCBufferSize |-> Discover]}
=============================================================================
