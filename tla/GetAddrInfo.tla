----------------------------- MODULE GetAddrInfo -----------------------------
(***************************************************************************)
(* The two getaddrinfo() of unpv13e: libgai (IPv4, IPv6 and Unix domain)   *)
(* and the older libfree/getaddrinfo.c (IPv4 and Unix domain, for want of  *)
(* the IPv6 constants it looks for).  One call, step by step: the checks,  *)
(* the searches, an addrinfo{} for each address, the service, which clones *)
(* the entries that have no socket type, and the return or the clean-up.   *)
(*                                                                         *)
(* Names and numbers are classes of strings; what the resolver and         *)
(* /etc/services answer is a constant (external).  Each memory allocation  *)
(* may fail, one of them in a call.                                        *)
(***************************************************************************)
EXTENDS Integers, Sequences, FiniteSets, SequencesExt

CONSTANTS
    GaiCalls,       \* calls
    GaiNames        \* the resolver: [name -> [family -> addresses]]

ASSUME GaiCallsAssumption ==
    GaiCalls \subseteq [lib : {"gai", "free"}, host : STRING, serv : STRING, family : STRING,
                        type : STRING, passive : BOOLEAN, canon : BOOLEAN]
ASSUME GaiNamesAssumption ==
    \A host \in DOMAIN GaiNames : GaiNames[host] \in [{"inet", "inet6"} -> Seq(STRING)]

VARIABLES
    gaiPc,          \* "idle", "check", "search", "struct", "canon", "serv",
                    \* "unix", "bad", "done", "quit" (err_quit)
    gaiCall,        \* the arguments
    gaiSearch,      \* search[] still to do: <<host, family>>
    gaiTwo,         \* nsearch == 2
    gaiAddrs,       \* addresses of this search still to be made entries of
    gaiList,        \* the list at aihead
    gaiInit,        \* aihead has been set
    gaiSaved,       \* canon holds a name that no entry has yet
    gaiHeap,        \* allocations of this call that are not freed
    gaiRc,          \* what is returned: "ok" or an EAI_ code
    gaiFreed,       \* what freeaddrinfo() was given: "none", "list", "garbage"
    gaiFailed       \* an allocation has failed

gaiVars == <<gaiPc, gaiCall, gaiSearch, gaiTwo, gaiAddrs, gaiList, gaiInit,
             gaiSaved, gaiHeap, gaiRc, gaiFreed, gaiFailed>>

GaiNoCall == [lib |-> "gai", host |-> "none", serv |-> "none", family |-> "unspec",
              type |-> "0", passive |-> FALSE, canon |-> FALSE]

GaiInit ==
    /\ gaiPc = "idle" /\ gaiCall = GaiNoCall /\ gaiSearch = <<>> /\ gaiTwo = FALSE
    /\ gaiAddrs = <<>> /\ gaiList = <<>> /\ gaiInit = FALSE /\ gaiSaved = FALSE
    /\ gaiHeap = 0 /\ gaiRc = "ok" /\ gaiFreed = "none" /\ gaiFailed = FALSE

GaiError(e) == gaiPc' = "bad" /\ gaiRc' = e

\* libgai sets aihead at once; libfree only when it makes the first entry.
GaiStarts(lib) == lib = "gai"

GaiEnter ==
    /\ gaiPc = "idle"
    /\ gaiCall' \in GaiCalls /\ gaiInit' = GaiStarts(gaiCall'.lib) /\ gaiPc' = "check"
    /\ UNCHANGED <<gaiSearch, gaiTwo, gaiAddrs, gaiList, gaiSaved, gaiHeap, gaiRc, gaiFreed, gaiFailed>>

\* ga_echeck(), the family and socket type.
ga_echeck(c) ==
    IF c.host = "none" /\ c.serv = "none" THEN "NONAME"
    ELSE IF c.family = "other" THEN "FAMILY"
    ELSE IF c.family = "local" /\ c.type = "raw" THEN "SOCKTYPE"
    ELSE "ok"

\* ga_nsearch(): IPv6 first; nothing at all for the Unix domain.
ga_nsearch(c) ==
    LET host6 == IF c.host # "none" THEN c.host ELSE IF c.passive THEN "0::0" ELSE "0::1"
        host4 == IF c.host # "none" THEN c.host ELSE IF c.passive THEN "0.0.0.0" ELSE "localhost"
    IN  (IF c.family \in {"inet6", "unspec"} THEN <<<<host6, "inet6">>>> ELSE <<>>)
        \o (IF c.family \in {"inet", "unspec"} THEN <<<<host4, "inet">>>> ELSE <<>>)

\* The start of libgai's getaddrinfo(): checks, Unix domain, searches.
GaiCheck ==
    /\ gaiPc = "check" /\ gaiCall.lib = "gai"
    /\ LET c == gaiCall
           todo == ga_nsearch(c)
       IN  \/ /\ ga_echeck(c) # "ok" /\ GaiError(ga_echeck(c))
              /\ UNCHANGED <<gaiSearch, gaiTwo>>
           \/ /\ ga_echeck(c) = "ok" /\ c.host = "path" /\ c.serv = "path"
              /\ gaiPc' = "unix" /\ UNCHANGED <<gaiSearch, gaiTwo, gaiRc>>
           \/ /\ ga_echeck(c) = "ok" /\ ~(c.host = "path" /\ c.serv = "path")
              /\ gaiPc' = IF todo = <<>> THEN "quit" ELSE "search"
              /\ gaiSearch' = todo /\ gaiTwo' = (Len(todo) = 2) /\ UNCHANGED gaiRc
    /\ UNCHANGED <<gaiCall, gaiAddrs, gaiList, gaiInit, gaiSaved, gaiHeap, gaiFreed, gaiFailed>>

\* libfree: the first error of its checks, before aihead has a value.
GafError(c) ==
    IF c.family \in {"inet6", "other"} THEN "FAMILY"
    ELSE IF c.family = "local" /\ c.type = "raw" THEN "SOCKTYPE"
    ELSE IF c.host = "none" /\ c.serv = "none" THEN "NONAME"
    ELSE IF c.host = "none" /\ c.passive
            /\ (c.family = "unspec" \/ (c.family = "local" /\ c.serv # "path")) THEN "ADDRFAMILY"
    ELSE "ok"

\* libfree: the host it will look up; a path is for the Unix domain.
GafHost(c) ==
    IF c.host # "none" THEN c.host
    ELSE IF ~c.passive THEN "localhost" ELSE IF c.family = "inet" THEN "0.0.0.0" ELSE "path"

GafCheck ==
    /\ gaiPc = "check" /\ gaiCall.lib = "free"
    /\ LET c == gaiCall
       IN  \/ GafError(c) # "ok" /\ GaiError(GafError(c)) /\ UNCHANGED gaiSearch
           \/ /\ GafError(c) = "ok"
              /\ IF GafHost(c) = "path" \/ c.serv = "path"
                 THEN gaiPc' = "unix" /\ UNCHANGED gaiSearch
                 ELSE gaiPc' = "search" /\ gaiSearch' = <<<<GafHost(c), c.family>>>>
              /\ UNCHANGED gaiRc
    /\ UNCHANGED <<gaiCall, gaiTwo, gaiAddrs, gaiList, gaiInit, gaiSaved, gaiHeap, gaiFreed, gaiFailed>>

GaiLiteral4(host) == host \in {"0.0.0.0", "v4"}
GaiLiteral6(host) == host \in {"0::0", "0::1", "v6"}

\* gethostbyname() or gethostbyname2(), external.
GaiLookup(host, family) == IF host \in DOMAIN GaiNames THEN GaiNames[host][family] ELSE <<>>

\* One search of libgai: an address string, or the resolver.  With two
\* searches a failure of one is no error.  The first name found is saved, which
\* strdup() may fail to do.
GaiSearchNext ==
    /\ gaiPc = "search" /\ gaiCall.lib = "gai" /\ gaiSearch # <<>>
    /\ gaiSearch' = Tail(gaiSearch)
    /\ LET host == gaiSearch[1][1]
           family == gaiSearch[1][2]
           literal == IF GaiLiteral4(host) THEN "inet" ELSE "inet6"
           found == GaiLookup(host, family)
           save == gaiCall.host # "none" /\ gaiCall.canon /\ ~gaiSaved
       IN  IF GaiLiteral4(host) \/ GaiLiteral6(host)
           THEN IF gaiCall.family \notin {"unspec", literal}
                THEN GaiError("ADDRFAMILY") /\ UNCHANGED <<gaiAddrs, gaiSaved, gaiHeap, gaiFailed>>
                ELSE /\ IF family = literal THEN gaiAddrs' = <<<<family, host>>>> /\ gaiPc' = "struct"
                        ELSE UNCHANGED <<gaiAddrs, gaiPc>>
                     /\ UNCHANGED <<gaiRc, gaiSaved, gaiHeap, gaiFailed>>
           ELSE IF found = <<>>
           THEN IF gaiTwo THEN UNCHANGED <<gaiPc, gaiRc, gaiAddrs, gaiSaved, gaiHeap, gaiFailed>>
                ELSE GaiError("NONAME") /\ UNCHANGED <<gaiAddrs, gaiSaved, gaiHeap, gaiFailed>>
           ELSE \/ /\ gaiAddrs' = [i \in DOMAIN found |-> <<family, found[i]>>]
                   /\ gaiSaved' = (gaiSaved \/ save) /\ gaiHeap' = gaiHeap + (IF save THEN 1 ELSE 0)
                   /\ gaiPc' = "struct" /\ UNCHANGED <<gaiRc, gaiFailed>>
                \/ /\ save /\ ~gaiFailed /\ gaiFailed' = TRUE /\ GaiError("MEMORY")
                   /\ UNCHANGED <<gaiAddrs, gaiSaved, gaiHeap>>
    /\ UNCHANGED <<gaiCall, gaiTwo, gaiList, gaiInit, gaiFreed>>

\* getaddrinfo_host() of libfree, and its check of the family.
GafSearch ==
    /\ gaiPc = "search" /\ gaiCall.lib = "free" /\ gaiSearch # <<>>
    /\ gaiSearch' = <<>>
    /\ LET host == gaiSearch[1][1]
           found == IF GaiLiteral4(host) THEN <<host>> ELSE GaiLookup(host, "inet")
       IN  IF found = <<>> THEN GaiError("NONAME") /\ UNCHANGED <<gaiAddrs, gaiInit>>
           ELSE IF gaiCall.family \notin {"unspec", "inet"}
           THEN GaiError("ADDRFAMILY") /\ UNCHANGED <<gaiAddrs, gaiInit>>
           ELSE /\ gaiAddrs' = [i \in DOMAIN found |-> <<"inet", found[i]>>]
                /\ gaiInit' = TRUE /\ gaiPc' = "struct" /\ UNCHANGED gaiRc
    /\ UNCHANGED <<gaiCall, gaiTwo, gaiList, gaiSaved, gaiHeap, gaiFreed, gaiFailed>>

\* ga_aistruct(): the entry, linked at once, and its socket address; n is
\* how many of the two allocations succeed.
ga_aistruct(addr, type, n) ==
    /\ n = 2 \/ ~gaiFailed
    /\ gaiFailed' = (gaiFailed \/ n < 2)
    /\ gaiHeap' = gaiHeap + n
    /\ gaiList' = IF n = 0 THEN gaiList
                  ELSE Append(gaiList, [addr |-> addr, type |-> type, clone |-> type = "0",
                                        port |-> "0", canon |-> FALSE, sa |-> n = 2])

\* The loop of libfree does the same in place.
GafStruct(addr, type, n) == ga_aistruct(addr, type, n)

GaiStruct ==
    /\ gaiPc = "struct"
    /\ IF gaiAddrs = <<>>
       THEN gaiPc' = "search" /\ UNCHANGED <<gaiAddrs, gaiList, gaiHeap, gaiFailed, gaiRc>>
       ELSE \E n \in 0 .. 2 :
              /\ IF gaiCall.lib = "gai" THEN ga_aistruct(Head(gaiAddrs), gaiCall.type, n)
                 ELSE GafStruct(Head(gaiAddrs), gaiCall.type, n)
              /\ gaiAddrs' = Tail(gaiAddrs)
              /\ IF n < 2 THEN GaiError("MEMORY") ELSE UNCHANGED <<gaiPc, gaiRc>>
    /\ UNCHANGED <<gaiCall, gaiSearch, gaiTwo, gaiInit, gaiSaved, gaiFreed>>

\* After the searches: nothing found, or the canonical name for the first
\* entry, the one that was saved or a new copy, for which there may be no memory.
GaiCanon ==
    /\ gaiPc = "search" /\ gaiSearch = <<>>
    /\ LET named == gaiCall.canon /\ (gaiCall.host # "none" \/ gaiCall.lib = "free")
           next == IF gaiCall.serv = "none" THEN "done" ELSE "serv"
       IN  \/ /\ gaiList = <<>> /\ GaiError("NONAME")
              /\ UNCHANGED <<gaiList, gaiSaved, gaiHeap, gaiFailed>>
           \/ /\ gaiList # <<>> /\ ~named /\ gaiPc' = next
              /\ UNCHANGED <<gaiList, gaiSaved, gaiHeap, gaiRc, gaiFailed>>
           \/ /\ gaiList # <<>> /\ named /\ gaiPc' = next
              /\ gaiList' = [gaiList EXCEPT ![1].canon = TRUE]
              /\ gaiHeap' = gaiHeap + (IF gaiSaved THEN 0 ELSE 1) /\ gaiSaved' = FALSE
              /\ UNCHANGED <<gaiRc, gaiFailed>>
           \/ /\ gaiList # <<>> /\ named /\ ~gaiSaved /\ ~gaiFailed
              /\ gaiFailed' = TRUE /\ GaiError("MEMORY")
              /\ UNCHANGED <<gaiList, gaiSaved, gaiHeap>>
    /\ UNCHANGED <<gaiCall, gaiSearch, gaiTwo, gaiAddrs, gaiInit, gaiFreed>>

\* ga_serv() finds the service for a socket type: a number is one for all.
GaiFinds(c, t) ==
    c.type \in {"0", t} /\ c.serv \in {"num", "both", t} /\ (t = "raw" => c.serv = "num")

\* The socket types for which ga_serv() finds the service.
GaiTypes(c) ==
    IF c.type # "0" THEN (IF GaiFinds(c, c.type) THEN <<c.type>> ELSE <<>>)
    ELSE (IF GaiFinds(c, "stream") THEN <<"stream">> ELSE <<>>)
         \o (IF GaiFinds(c, "dgram") THEN <<"dgram">> ELSE <<>>)

\* getaddrinfo_serv() of libfree: with a number the type must be given.
GafTypes(c) == IF c.serv = "num" /\ c.type = "0" THEN <<>> ELSE GaiTypes(c)

\* Mutant: the copy comes before the entry.
GaiCloneBefore(e, t, port) == <<[e EXCEPT !.type = t, !.port = port, !.canon = FALSE, !.clone = FALSE], e>>

\* ga_clone(): the copy comes after the entry and is not cloned again.
ga_clone(e, t, port) == <<e, [e EXCEPT !.type = t, !.port = port, !.canon = FALSE, !.clone = FALSE]>>

\* ga_port() on one entry: the entries that replace it.
GaiPorted(e, t, port) ==
    IF e.clone /\ e.type # "0" THEN ga_clone(e, t, port)
    ELSE IF e.clone \/ e.type = t THEN <<[e EXCEPT !.type = t, !.port = port]>>
    ELSE <<e>>

\* ga_port() for one socket type.
ga_port(list, t, port) == FlattenSeq([i \in DOMAIN list |-> GaiPorted(list[i], t, port)])

\* libfree has its own copies of the two.
getaddrinfo_clone(e, t, port) == ga_clone(e, t, port)
getaddrinfo_port(list, t, port) ==
    FlattenSeq([i \in DOMAIN list |->
        IF list[i].clone /\ list[i].type # "0" THEN getaddrinfo_clone(list[i], t, port)
        ELSE GaiPorted(list[i], t, port)])

\* ga_serv(): stream, then datagram; a clone that cannot be made leaves the
\* list as it is so far (here: the last one).
GaiServ ==
    /\ gaiPc = "serv"
    /\ LET gai == gaiCall.lib = "gai"
           types == IF gai THEN GaiTypes(gaiCall) ELSE GafTypes(gaiCall)
           port(l, t) == IF gai THEN ga_port(l, t, gaiCall.serv)
                         ELSE getaddrinfo_port(l, t, gaiCall.serv)
           one == port(gaiList, types[1])
           all == IF Len(types) = 1 THEN one ELSE port(one, types[2])
           new == Len(all) - Len(gaiList)
       IN  \/ /\ types = <<>>
              /\ GaiError(IF gaiCall.type = "0" THEN "NONAME" ELSE "SERVICE")
              /\ UNCHANGED <<gaiList, gaiHeap, gaiFailed>>
           \/ /\ types # <<>>
              /\ gaiList' = all /\ gaiHeap' = gaiHeap + 2 * new /\ gaiPc' = "done"
              /\ UNCHANGED <<gaiRc, gaiFailed>>
           \/ /\ types # <<>> /\ new > 0 /\ ~gaiFailed /\ gaiFailed' = TRUE
              /\ \E n \in 0 .. 1 :
                    /\ gaiList' = IF n = 0 THEN Front(all) ELSE [all EXCEPT ![Len(all)].sa = FALSE]
                    /\ gaiHeap' = gaiHeap + 2 * (new - 1) + n
              /\ GaiError("MEMORY")
    /\ UNCHANGED <<gaiCall, gaiSearch, gaiTwo, gaiAddrs, gaiInit, gaiSaved, gaiFreed>>

\* ga_unix(): a stream and a datagram entry if no type was given, then this
\* host's name for the first; its error returns free nothing.
GaiUnix ==
    /\ gaiPc = "unix" /\ gaiCall.lib = "gai"
    /\ LET types == IF gaiCall.type = "0" THEN <<"stream", "dgram">> ELSE <<gaiCall.type>>
       IN  IF gaiCall.family \notin {"unspec", "local"}
           THEN gaiPc' = "done" /\ gaiRc' = "ADDRFAMILY" /\ UNCHANGED <<gaiList, gaiHeap, gaiFailed>>
           ELSE IF Len(gaiList) < Len(types)
           THEN \E n \in 0 .. 2 :
                  /\ ga_aistruct(<<"local", "path">>, types[Len(gaiList) + 1], n)
                  /\ gaiPc' = IF n < 2 \/ (Len(gaiList) + 1 = Len(types) /\ ~gaiCall.canon)
                             THEN "done" ELSE "unix"
                  /\ gaiRc' = IF n < 2 THEN "MEMORY" ELSE "ok"
           ELSE /\ gaiPc' = "done"
                /\ \/ /\ gaiRc' = "ok" /\ gaiList' = [gaiList EXCEPT ![1].canon = TRUE]
                      /\ gaiHeap' = gaiHeap + 1 /\ UNCHANGED gaiFailed
                   \/ /\ ~gaiFailed /\ gaiFailed' = TRUE /\ gaiRc' \in {"MEMORY", "SYSTEM"}
                      /\ UNCHANGED <<gaiList, gaiHeap>>
    /\ UNCHANGED <<gaiCall, gaiSearch, gaiTwo, gaiAddrs, gaiInit, gaiSaved, gaiFreed>>

\* addrinfo_local(): the socket type must be given.  NULL, which is returned
\* when the entry cannot be allocated, is the value of success.
GafLocal ==
    /\ gaiPc = "unix" /\ gaiCall.lib = "free"
    /\ gaiPc' = "done"
    /\ IF gaiCall.type = "0" THEN gaiRc' = "SOCKTYPE" /\ UNCHANGED <<gaiList, gaiHeap, gaiFailed>>
       ELSE \E n \in 0 .. 2 :
              /\ ga_aistruct(<<"local", "path">>, gaiCall.type, n)
              /\ gaiRc' = IF n = 1 THEN "MEMORY" ELSE "ok"
    /\ UNCHANGED <<gaiCall, gaiSearch, gaiTwo, gaiAddrs, gaiInit, gaiSaved, gaiFreed>>

\* freeaddrinfo(): each entry, its address if it has one, and the name.
freeaddrinfo(list) ==
    Len(list) + Cardinality({i \in DOMAIN list : list[i].sa})
              + Cardinality({i \in DOMAIN list : list[i].canon})

\* The label bad: the list is freed; what canon points to is not.
GaiBad ==
    /\ gaiPc = "bad"
    /\ gaiFreed' = IF gaiInit THEN "list" ELSE "garbage"
    /\ gaiHeap' = gaiHeap - freeaddrinfo(gaiList) /\ gaiList' = <<>>
    /\ gaiPc' = "done"
    /\ UNCHANGED <<gaiCall, gaiSearch, gaiTwo, gaiAddrs, gaiInit, gaiSaved, gaiRc, gaiFailed>>

GaiNext ==
    GaiEnter \/ GaiCheck \/ GafCheck \/ GaiSearchNext \/ GafSearch \/ GaiStruct
    \/ GaiCanon \/ GaiServ \/ GaiUnix \/ GafLocal \/ GaiBad

GaiSpec == GaiInit /\ [][GaiNext]_gaiVars

-----------------------------------------------------------------------------

\* The addresses a host has, IPv6 first, for a family hint.
GaiAddresses(c) ==
    FlattenSeq([i \in DOMAIN ga_nsearch(c) |->
        LET host == ga_nsearch(c)[i][1]
            family == ga_nsearch(c)[i][2]
            names == IF GaiLiteral4(host) THEN (IF family = "inet" THEN <<host>> ELSE <<>>)
                     ELSE IF GaiLiteral6(host) THEN (IF family = "inet6" THEN <<host>> ELSE <<>>)
                     ELSE GaiLookup(host, family)
        IN  [j \in DOMAIN names |-> <<family, names[j]>>]])

(***************************************************************************)
(* What a successful libgai call returns, as the comment of ga_port.c asks *)
(* it: for each address, IPv6 first, one entry for each socket type that   *)
(* has the service, and the canonical name on the first entry only.        *)
(***************************************************************************)
GaiListRight ==
    gaiPc = "done" /\ gaiRc = "ok" /\ gaiCall.lib = "gai" /\ gaiCall.host # "path" =>
        LET types == IF gaiCall.serv = "none" THEN <<gaiCall.type>> ELSE GaiTypes(gaiCall)
            addrs == GaiAddresses(gaiCall)
        IN  /\ [i \in DOMAIN gaiList |-> <<gaiList[i].addr, gaiList[i].type>>]
               = FlattenSeq([i \in DOMAIN addrs |-> [j \in DOMAIN types |-> <<addrs[i], types[j]>>]])
            /\ \A i \in DOMAIN gaiList :
                  gaiList[i].canon = (i = 1 /\ gaiCall.canon /\ gaiCall.host # "none")

(***************************************************************************)
(* freeaddrinfo() is given the list that this call has built.  libfree     *)
(* does not keep that: an error of its checks or of its search comes       *)
(* before aihead has any value.                                            *)
(***************************************************************************)
GaiFreesOwn == gaiFreed = "garbage" => gaiCall.lib = "free" /\ gaiList = <<>> /\ gaiAddrs = <<>>

(***************************************************************************)
(* A call that fails keeps no memory but a canonical name that no entry    *)
(* had got yet, and the entries of the Unix domain.                        *)
(***************************************************************************)
GaiLeaks ==
    gaiPc = "done" /\ gaiRc # "ok" /\ gaiHeap > 0 =>
        (gaiSaved /\ gaiHeap = 1 /\ gaiFailed) \/ gaiList # <<>>

\* A call of getaddrinfo() as a whole: the right list on success, and on
\* failure a clean-up of its own memory, all but what is named.
GaiSafe ==
    /\ GaiListRight
    /\ GaiFreesOwn
    /\ GaiLeaks
=============================================================================
