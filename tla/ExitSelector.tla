---------------------------- MODULE ExitSelector ----------------------------
(***************************************************************************)
(* exitSelector (src/core/exit_selector.cpp): which countries have exits,  *)
(* read off the lines of Tor's answer to GETINFO ns/all, and the lookup of *)
(* GeoIP it relies on (src/core/geoip.cpp).                                *)
(*                                                                         *)
(* Each method reads the answer line by line; here each is a fold over the *)
(* lines.  The consensus grows by a relay at a time, so that the runs see  *)
(* every sequence of relays up to a length.                                *)
(***************************************************************************)
EXTENDS Naturals, Sequences, SequencesExt

CONSTANTS
  Named,     (* countries of the database that have a name                 *)
  CodeOf,    (* their ISO codes; NoCode where the database has none        *)
  NoCode,
  Unknown,   (* stands for an address the database does not know           *)
  MaxRelays  (* bounds the consensus                                       *)

ASSUME NamedAssumption == Unknown \notin Named /\ DOMAIN CodeOf = Named
ASSUME MaxRelaysAssumption == MaxRelays \in Nat

VARIABLE relays   (* Tor's consensus                                       *)

(* What a relay says of itself, and where GeoIP finds its address.  The    *)
(* code looks for "Exit" anywhere in the flags, so exit is also what it    *)
(* takes a BadExit for.                                                    *)
Relays == [country : Named \cup {Unknown}, exit : BOOLEAN, ipv6 : BOOLEAN, bw : {1, 2}]

EsInit == relays = <<>>

(* External: a relay joins the network.                                    *)
Joins == /\ Len(relays) < MaxRelays
         /\ \E r \in Relays : relays' = Append(relays, r)

EsSpec == EsInit /\ [][Joins]_relays

-----------------------------------------------------------------------------
(* External: the answer.  A relay is an "r" line with its address, an "a"  *)
(* line if it has an IPv6 address, and an "s", a "w" and a "p" line; a     *)
(* line with a dot ends the relays, and 250 OK the answer.                 *)

Line(kind, i) == [kind |-> kind, of |-> i]

LinesOf(i) == <<Line("r", i)>> \o (IF relays[i].ipv6 THEN <<Line("a", i)>> ELSE <<>>)
              \o <<Line("s", i), Line("w", i), Line("p", i)>>

ConsensusLines ==
  <<Line("250+", 0)>> \o FlattenSeq([i \in 1..Len(relays) |-> LinesOf(i)])
  \o <<Line(".", 0), Line("250", 0)>>

-----------------------------------------------------------------------------
(* GeoIP::lookup by a relay's address.                                     *)
Lookup(i) == relays[i].country
Found(i) == Lookup(i) # Unknown

(* get_available_countries() and get_country_codes() look alike: an "s"    *)
(* line with the flag Exit counts for the address of the last "r" line,    *)
(* and then that address is dropped.  Counts says of which addresses, add  *)
(* what is remembered of one.                                              *)
Scan(Counts(_), add(_, _), nothing) ==
  LET Read(acc, line) ==
        CASE line.kind = "r" -> [acc EXCEPT !.current = line.of]
          [] /\ line.kind = "s" /\ acc.current # 0
             /\ relays[line.of].exit /\ Counts(acc.current)
               -> [current |-> 0, result |-> add(acc.result, acc.current)]
          [] OTHER -> acc
  IN FoldLeft(Read, [current |-> 0, result |-> nothing], ConsensusLines).result

AddCountry(countries, i) ==
  IF Lookup(i) \in {countries[n] : n \in DOMAIN countries} THEN countries
  ELSE Append(countries, Lookup(i))

(* Sorting is left out.                                                    *)
get_available_countries == Scan(Found, AddCountry, <<>>)

Coded(i) == Found(i) /\ CodeOf[Lookup(i)] # NoCode

AddCode(map, i) ==
  [c \in DOMAIN map \cup {Lookup(i)} |-> IF c = Lookup(i) THEN CodeOf[c] ELSE map[c]]

get_country_codes == Scan(Coded, AddCode, <<>>)

(* Mutant: the country an exit is in is not compared.                      *)
WantedAnywhere(country, i) == relays[i].exit /\ Found(i)

Wanted(country, i) == relays[i].exit /\ Lookup(i) = country

(* get_exits_for_country(): the "s" line must follow the "r" line.  Once   *)
(* an exit is found the inner loop reads to the end of the answer, since   *)
(* the line it waits for, ".", is read with its carriage return; "w" lines *)
(* on the way set the exit's bandwidth.                                    *)
ReadExit(country, acc, line) ==
  CASE acc.mode = "scan" /\ line.kind = "r" -> [acc EXCEPT !.mode = "flags"]
    [] acc.mode = "flags" ->
         IF line.kind = "s" /\ Wanted(country, line.of)
           THEN [mode |-> "inner",
                 exits |-> Append(acc.exits, [relay |-> line.of, bandwidth |-> 1000])]
           ELSE [acc EXCEPT !.mode = "scan"]
    [] acc.mode = "inner" /\ line.kind = "w" ->
         [acc EXCEPT !.exits[Len(acc.exits)].bandwidth = relays[line.of].bw]
    [] OTHER -> acc

get_exits_for_country(country) ==
  LET Read(acc, line) == ReadExit(country, acc, line)
  IN FoldLeft(Read, [mode |-> "scan", exits |-> <<>>], ConsensusLines).exits

-----------------------------------------------------------------------------
ExitsIn(country) == {i \in 1..Len(relays) : relays[i].exit /\ Lookup(i) = country}
WithExits == {c \in Named : ExitsIn(c) # {}}

(* The menu lists every country with an exit, once, and no other, however  *)
(* the relays' lines follow one another (exit_selector.cpp:22-51).         *)
MenuIsRight ==
  /\ {get_available_countries[n] : n \in DOMAIN get_available_countries} = WithExits
  /\ IsInjective(get_available_countries)

(* Of one consensus, change_city knows the code of every country of the    *)
(* menu that has one (exit_selector.cpp:54-83, service.cpp:281-291).       *)
MenuIsKnown ==
  /\ DOMAIN get_country_codes = {c \in WithExits : CodeOf[c] # NoCode}
  /\ \A c \in DOMAIN get_country_codes : get_country_codes[c] = CodeOf[c]

(* An exit that is found is one, of the country asked for, and at least    *)
(* one is found where an exit's lines are "r" and "s"                      *)
(* (exit_selector.cpp:93-143).  An exit that has an "a" line between them  *)
(* may be missed: the code takes the line behind "r" for the flags (:107). *)
FoundIsExit ==
  \A c \in Named :
    LET exits == get_exits_for_country(c)
    IN /\ \A n \in DOMAIN exits : exits[n].relay \in ExitsIn(c)
       /\ (\E i \in ExitsIn(c) : ~relays[i].ipv6) => exits # <<>>

(* What is read off the consensus is true of it, with three scans that     *)
(* differ in which lines they expect to follow one another                 *)
(* (exit_selector.cpp:17-147).                                             *)
ExitsAreRight == MenuIsRight /\ MenuIsKnown /\ FoundIsExit
=============================================================================
