--------------------------------- MODULE Uri ---------------------------------
(***************************************************************************)
(* mcoap/mc_uri.c: from the URI the application asks for,                  *)
(* mc_uri_to_address makes the address the request goes to and             *)
(* mc_uri_to_options its options.  A URI is a sequence of delimiters and   *)
(* words, and a position in it counts from 0, like a char pointer into the *)
(* string.  The components it was put together from are kept, so that what *)
(* the parser finds can be held against them.                              *)
(***************************************************************************)
EXTENDS Integers, Sequences, SequencesExt, FiniteSetsExt

CONSTANTS
  Parts,       \* components of the URIs parsed
  PortWords    \* words that atoi takes for a number other than 0

NoPort == "no port"
NoAddress == [none |-> TRUE]
MC_DEFAULT_PORT == "5683"

VARIABLES
  parts,    \* the components: scheme, host, port, path, query
  uri,      \* the URI made of them
  matches,  \* the destination address has the host and port of the URI
  stage,    \* "address", "authority", "path", "query" (what comes next), "done", "refused"
  address,  \* the host and port of the address made first, NoAddress if it was given up
  current,  \* the position reached
  nopts,    \* size of the option array
  options   \* the options written into it, in the order of writing: mc_options_list_init sorts
            \* them in the end, which is left to Request

vars == <<parts, uri, matches, stage, address, current, nopts, options>>

Prefixed(mark, words) == <<mark>> \o words

\* The URI of the components p, as an application writes it.
Text(p) ==
  p.scheme \o <<":", "/", "/">> \o p.host
    \o (IF p.port = NoPort THEN <<>> ELSE <<":", p.port>>)
    \o FlattenSeq([i \in DOMAIN p.path |-> Prefixed("/", p.path[i])])
    \o FlattenSeq([i \in DOMAIN p.query |-> Prefixed(IF i = 1 THEN "?" ELSE "&", p.query[i])])

Free(words, marks) ==
  words \in Seq(STRING) /\ \A i \in DOMAIN words : words[i] \notin marks \cup {"end"}

\* A host without brackets, or one between them, the closing one forgotten or not.
HostIsFree(host) ==
  \/ Free(host, {":", "/", "["})
  \/ /\ Free(host, {}) /\ host # <<>> /\ host[1] = "["
     /\ \A i \in 2..(Len(host) - 1) : host[i] # "]"

\* No component holds a delimiter that would end it; brackets are for hosts.
ASSUME PartsAssumption ==
  /\ NoPort \notin PortWords
  /\ \A p \in Parts :
       /\ Free(p.scheme, {":"}) /\ HostIsFree(p.host)
       /\ p.port \in STRING \ {"end", "/", "?", "]"}
       /\ p.path \in Seq(Seq(STRING)) /\ p.query \in Seq(Seq(STRING))
       /\ \A i \in DOMAIN p.path : Free(p.path[i], {"/", "?", "]"})
       /\ \A i \in DOMAIN p.query : Free(p.query[i], {"&", "]"})

Init ==
  /\ parts \in Parts /\ uri = Text(parts) /\ matches \in BOOLEAN
  /\ stage = "address" /\ address = NoAddress /\ current = 0
  /\ nopts = 0 /\ options = <<>>

-----------------------------------------------------------------------------
\* The word or delimiter at pos, "end" at the terminating 0.
At(pos) == IF pos < Len(uri) THEN uri[pos + 1] ELSE "end"

\* strcspn.
Span(pos, chars) == Min({n \in 0..(Len(uri) - pos) : At(pos + n) \in chars \cup {"end"}})

\* What is at pos, up to n long; nothing is read behind the terminating 0.
Copy(pos, n) == SubSeq(uri, pos + 1, IF pos + n <= Len(uri) THEN pos + n ELSE Len(uri))

\* advanceto: the next delimiter; from a delimiter, the end of the URI.
AdvanceTo(pos, chars) == IF Span(pos, chars) = 0 THEN Len(uri) ELSE pos + Span(pos, chars)

\* Faulty variant: only one of the schemes is known.
ValidSchemeCoap == ":" \in Range(uri) /\ Copy(0, Span(0, {":"})) = <<"coap">>

\* getscheme and validscheme.
ValidScheme == ":" \in Range(uri) /\ Copy(0, Span(0, {":"})) \in {<<"coap">>, <<"coaps">>}

\* getaddress, at the host: what is between brackets, else up to the next : or /.
Host(pos) ==
  IF At(pos) = "[" THEN Copy(pos + 1, Span(pos + 1, {"]"})) ELSE Copy(pos, Span(pos, {":", "/"}))

Bracketed(pos) == IF At(pos) = "[" THEN 2 ELSE 0

\* It is neither empty nor without its closing bracket.
HasHost(pos) ==
  Host(pos) # <<>> /\ (At(pos) = "[" => At(pos + 1 + Len(Host(pos))) = "]")

\* getport, behind the host.
Port(pos) == IF At(pos) = ":" /\ At(pos + 1) \in PortWords THEN At(pos + 1) ELSE MC_DEFAULT_PORT

\* Faulty variant: the parts of a query are not counted.
EstimateSegments(pos) == Cardinality({i \in pos..(Len(uri) - 1) : At(i) = "/"})

\* estimatenopts.
EstimateNopts(pos) == Cardinality({i \in pos..(Len(uri) - 1) : At(i) \in {"/", "?", "&"}})

Option(num, words) == [num |-> num, value |-> words]

\* Faulty variant: the brackets around the host are not skipped before the port.
ToAddressAtBracket ==
  LET authority == AdvanceTo(0, {":"})
      hostpos == authority + 3
      host == Host(hostpos)
  IN  /\ stage = "address"
      /\ stage' = "authority"
      /\ address' = IF Copy(authority, 3) = <<":", "/", "/">> /\ HasHost(hostpos)
                      THEN [host |-> host, port |-> Port(hostpos + Len(host))]
                      ELSE NoAddress
      /\ UNCHANGED <<parts, uri, matches, current, nopts, options>>

\* mc_uri_to_address, up to the name resolution; any scheme will do.
ToAddress ==
  LET authority == AdvanceTo(0, {":"})
      hostpos == authority + 3
      host == Host(hostpos)
  IN  /\ stage = "address"
      /\ stage' = "authority"
      /\ address' = IF Copy(authority, 3) = <<":", "/", "/">> /\ HasHost(hostpos)
                      THEN [host |-> host, port |-> Port(hostpos + Bracketed(hostpos) + Len(host))]
                      ELSE NoAddress
      /\ UNCHANGED <<parts, uri, matches, current, nopts, options>>

\* From the scheme to the port, and the array for the options.
ParseAuthority ==
  LET authority == AdvanceTo(0, {":"})
      hostpos == authority + 3
      host == Host(hostpos)
      portpos == hostpos + Bracketed(hostpos) + Len(host)
      pathpos == AdvanceTo(portpos, {"/", "?"})
  IN  /\ stage = "authority"
      /\ IF ValidScheme /\ Copy(authority, 3) = <<":", "/", "/">> /\ HasHost(hostpos)
           THEN /\ stage' = "path"
                /\ current' = pathpos
                /\ nopts' = EstimateNopts(pathpos) + (IF matches THEN 0 ELSE 2)
                /\ options' = IF matches THEN <<>>
                              ELSE <<Option("host", host), Option("port", <<Port(portpos)>>)>>
           ELSE stage' = "refused" /\ UNCHANGED <<current, nopts, options>>
      /\ UNCHANGED <<parts, uri, matches, address>>

\* getpath, at a slash.
GetPath(pos) == Copy(pos + 1, Span(pos + 1, {"/", "?"}))

\* getquery, at a ? or &.
GetQuery(pos) == Copy(pos + 1, Span(pos + 1, {"&"}))

\* Faulty variant: the parser stays at the segment it has copied.
TakePathStays ==
  /\ stage = "path" /\ At(current) = "/"
  /\ options' = Append(options, Option("path", GetPath(current)))
  /\ UNCHANGED <<parts, uri, matches, address, stage, current, nopts>>

\* The loop over getpath.
TakePath ==
  /\ stage = "path" /\ At(current) = "/"
  /\ options' = Append(options, Option("path", GetPath(current)))
  /\ current' = AdvanceTo(current + 1, {"/", "?"})
  /\ UNCHANGED <<parts, uri, matches, address, stage, nopts>>

EndPath ==
  /\ stage = "path" /\ At(current) # "/"
  /\ stage' = "query"
  /\ UNCHANGED <<parts, uri, matches, address, current, nopts, options>>

\* Faulty variant: a query ends at a slash, too.
TakeQueryToSlash ==
  /\ stage = "query" /\ At(current) \in {"?", "&"}
  /\ options' = Append(options, Option("query", Copy(current + 1, Span(current + 1, {"&", "/"}))))
  /\ current' = AdvanceTo(current + 1, {"&"})
  /\ UNCHANGED <<parts, uri, matches, address, stage, nopts>>

\* The loop over getquery.
TakeQuery ==
  /\ stage = "query" /\ At(current) \in {"?", "&"}
  /\ options' = Append(options, Option("query", GetQuery(current)))
  /\ current' = AdvanceTo(current + 1, {"&"})
  /\ UNCHANGED <<parts, uri, matches, address, stage, nopts>>

EndQuery ==
  /\ stage = "query" /\ At(current) \notin {"?", "&"}
  /\ stage' = "done"
  /\ UNCHANGED <<parts, uri, matches, address, current, nopts, options>>

Next == ToAddress \/ ParseAuthority \/ TakePath \/ EndPath \/ TakeQuery \/ EndQuery
Spec == Init /\ [][Next]_vars

-----------------------------------------------------------------------------
\* The options that the components stand for.
Expected ==
  LET host == IF parts.host[1] = "[" THEN SubSeq(parts.host, 2, Len(parts.host) - 1) ELSE parts.host
      port == IF parts.port \in PortWords THEN parts.port ELSE MC_DEFAULT_PORT
  IN  (IF matches THEN <<>> ELSE <<Option("host", host), Option("port", <<port>>)>>)
        \o [i \in DOMAIN parts.path |-> Option("path", parts.path[i])]
        \o [i \in DOMAIN parts.query |-> Option("query", parts.query[i])]

WellFormed ==
  /\ parts.scheme \in {<<"coap">>, <<"coaps">>}
  /\ parts.host # <<>> /\ (parts.host[1] = "[" => Len(parts.host) > 2 /\ Last(parts.host) = "]")

NoneEmpty ==
  /\ \A i \in DOMAIN parts.path : parts.path[i] # <<>>
  /\ \A i \in DOMAIN parts.query : parts.query[i] # <<>>

\* A ? right behind the host is read as part of it: gethost looks for : and / only.
HostMeetsQuery == parts.port = NoPort /\ parts.path = <<>> /\ parts.query # <<>>

\* The array that was allocated from an estimate holds every option found later, and the
\* position does not leave the string.
OptionsFit == Len(options) <= nopts /\ current \in 0..Len(uri)

\* Whatever the parser passes over, the options it does make are the first of those that
\* the URI stands for: no component is cut, joined with another or taken for another,
\* and nothing is made of a malformed URI.
OptionsAreBeginning ==
  options # <<>> /\ ~HostMeetsQuery => WellFormed /\ IsPrefix(options, Expected)

\* A URI is refused only if it is malformed, and one that gives a port and has no empty
\* component yields all its components.
PlainIsParsed ==
  /\ stage = "refused" => ~WellFormed
  /\ stage = "done" /\ WellFormed /\ parts.port # NoPort /\ NoneEmpty => options = Expected

\* The two functions read the authority of a URI alike, each with code of its own: the
\* options name the host and port that the request goes to, and a URI that has an
\* address is refused for nothing but its scheme.
AddressAgrees ==
  /\ stage \in {"path", "query", "done"} =>
       /\ address # NoAddress
       /\ ~matches => SubSeq(options, 1, 2) =
            <<Option("host", address.host), Option("port", <<address.port>>)>>
  /\ stage = "refused" /\ address # NoAddress => ~ValidScheme

\* Every turn of a loop moves on in the URI, and no step goes back: the parser ends.
ParseAdvances == [][stage' = stage => current' > current]_vars

\* "Parse host, port, path, and query components from uri" (mc_uri.c:209): nothing is
\* passed over, with or without a port in the URI.
NothingPassedOver ==
  stage = "done" /\ WellFormed /\ NoneEmpty /\ parts.path # <<>> => options = Expected
=============================================================================
