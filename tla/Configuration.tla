--------------------------- MODULE Configuration ---------------------------
(***************************************************************************)
(* load_config (config/config.cpp).  A file is a sequence of lines          *)
(* [key, value]: comments and empty lines are left out, "<VirtualHost" and  *)
(* "</VirtualHost>" are keys, and where an integer is expected 0 stands for *)
(* every text that parse_positive_int rejects.                              *)
(***************************************************************************)
EXTENDS Integers, Sequences, FiniteSets

Lines == [key : STRING, value : Nat]

Integer == {"Listen", "nThreads", "nSelectLoops", "Timeout", "TLSPort"}
Text == {"LogFile", "TLSCertFile", "TLSKeyFile"}
HostText == {"DocumentRoot", "ServerName"}

\* The initializers of Config and VirtualHost; an empty text is 0.
Default == [Listen |-> 8080, nThreads |-> 4, nSelectLoops |-> 0, Timeout |-> 10,
            TLSPort |-> 4443, LogFile |-> 0, TLSCertFile |-> 0, TLSKeyFile |-> 0]
NewHost == [DocumentRoot |-> 0, ServerName |-> 0]

\* What the loop over the lines has read so far; ok turns FALSE by return false.
Start == [ok |-> TRUE, in_virtual_host |-> FALSE, mode |-> "Threads",
          setting |-> Default, virtual_hosts |-> <<>>]

\* A line inside a <VirtualHost> block.
HostLine(acc, line) ==
  CASE line.key = "</VirtualHost>" -> [acc EXCEPT !.in_virtual_host = FALSE]
    [] line.key \in HostText ->
         [acc EXCEPT !.virtual_hosts[Len(acc.virtual_hosts)][line.key] = line.value]
    [] OTHER -> acc

\* A line outside.
MainLine(acc, line) ==
  CASE line.key = "<VirtualHost" ->
         [acc EXCEPT !.virtual_hosts = Append(@, NewHost), !.in_virtual_host = TRUE]
    [] line.key \in Integer /\ line.value = 0 -> [acc EXCEPT !.ok = FALSE]
    [] line.key \in Integer /\ line.value # 0 ->
         [acc EXCEPT !.setting[line.key] = line.value,
                     !.mode = CASE line.key = "nThreads" -> "Threads"
                                [] line.key = "nSelectLoops" -> "Select"
                                [] OTHER -> @]
    [] line.key \in Text -> [acc EXCEPT !.setting[line.key] = line.value]
    [] OTHER -> acc

\* Mutant of Line: a setting inside a block counts like one outside.
LineAnywhere(acc, line) ==
  IF acc.ok /\ line.key \in Integer THEN MainLine(acc, line)
  ELSE IF acc.in_virtual_host THEN HostLine(acc, line) ELSE MainLine(acc, line)

Line(acc, line) ==
  CASE ~acc.ok -> acc
    [] acc.ok /\ acc.in_virtual_host -> HostLine(acc, line)
    [] OTHER -> MainLine(acc, line)

\* The loop: what the first n lines give.
After(file) ==
  LET after[n \in 0..Len(file)] == IF n = 0 THEN Start ELSE Line(after[n - 1], file[n])
  IN  after

load_config(file) ==
  LET end == After(file)[Len(file)]
  IN  [end EXCEPT !.ok = @ /\ ~end.in_virtual_host]
-----------------------------------------------------------------------------
(***************************************************************************)
(* The reference, by the position of the lines.                             *)
(***************************************************************************)
Key(file, i) == file[i].key

\* Line i stands in a block: some opening line before it is not closed before it.
Inside(file, i) ==
  \E j \in 1..i - 1 :
    /\ Key(file, j) = "<VirtualHost"
    /\ \A k \in j + 1..i - 1 : Key(file, k) # "</VirtualHost>"

\* The lines outside of blocks with one of these keys; the last of some lines.
Outside(file, keys) == {i \in DOMAIN file : Key(file, i) \in keys /\ ~Inside(file, i)}
LastOf(places) == CHOOSE i \in places : \A j \in places : j <= i

Acceptable(file) ==
  /\ \A i \in Outside(file, Integer) : file[i].value # 0
  /\ ~Inside(Append(file, [key |-> "end", value |-> 0]), Len(file) + 1)

SettingOf(file, key) ==
  LET lines == Outside(file, {key})
  IN  IF lines = {} THEN Default[key] ELSE file[LastOf(lines)].value

ModeOf(file) ==
  LET lines == Outside(file, {"nThreads", "nSelectLoops"})
  IN  IF lines # {} /\ Key(file, LastOf(lines)) = "nSelectLoops" THEN "Select" ELSE "Threads"

\* The text that the block opened at line i gives for key.
HostTextOf(file, i, key) ==
  LET lines == {j \in i + 1..Len(file) :
                  /\ Key(file, j) = key
                  /\ \A k \in i + 1..j : Key(file, k) # "</VirtualHost>"}
  IN  IF lines = {} THEN NewHost[key] ELSE file[LastOf(lines)].value

\* What load_config must make of an acceptable file.
AsWritten(file, config) ==
  LET blocks == Outside(file, {"<VirtualHost"})
      Block(n) == CHOOSE i \in blocks : Cardinality({j \in blocks : j <= i}) = n
  IN  /\ config.mode = ModeOf(file)
      /\ \A key \in Integer \cup Text : config.setting[key] = SettingOf(file, key)
      /\ Len(config.virtual_hosts) = Cardinality(blocks)
      /\ \A n \in DOMAIN config.virtual_hosts, key \in HostText :
           config.virtual_hosts[n][key] = HostTextOf(file, Block(n), key)
=============================================================================
