----------------------------- MODULE AppConfig -----------------------------
(***************************************************************************)
(* What piduier_config_load makes of a configuration file. A file is a     *)
(* record of what each field of its JSON text holds, told apart only as    *)
(* far as the checks of app_config.c tell it apart. All or nothing: a      *)
(* file that fails one check leaves an empty configuration.                *)
(***************************************************************************)
EXTENDS Integers, Sequences, Pinctrl

CONSTANTS
  NumPins,    \* PIDUIER_PINCTRL_GPIO_COUNT, GPIO_SUPPORTED_PINS_COUNT
  NotThere    \* a field that is missing or of another JSON type

ASSUME NumPinsAssumption  == NumPins \in Nat \ {0}
ASSUME NotThereAssumption == NotThere \notin Funcs \cup STRING \cup Int

Pins == 0 .. NumPins - 1

Empty    == "empty"       \* the string ""
TooLong  == "too long"    \* a string that does not fit the field
Address  == "address"     \* a string that mongoose can listen on
Word     == "word"        \* any other string
Texts    == {NotThere, Empty, TooLong, Address, Word}

\* A key of the pinctrl object: the number strtol finds after "gpio" and
\* whether it is spelled as gpio%d prints it ("gpio07" and "gpio" are not), or
\* one that does not read as a number to its end.
Plain(index) == [index |-> index, plain |-> TRUE]
Other(index) == [index |-> index, plain |-> FALSE]
BadKey       == [index |-> -1, plain |-> FALSE]

\* An open configuration that piduier_config_load has refused to fill.
NoConfig == [listen |-> Empty, pinctrl |-> [p \in Pins |-> Empty],
             webRoot |-> Empty, rules |-> <<>>]

-----------------------------------------------------------------------------
(* Each field: is it accepted, and as what. *)

NonEmptyText(text) == text \in {Address, Word}

\* validate_http_port; numbers are counted in halves, so that there is one
\* which is no integer.
ValidPort(halves) == halves \in 2 .. 131070 /\ halves % 2 = 0

ValidWebRoot(text) == text = NotThere \/ NonEmptyText(text)
WebRoot(text) == IF text = NotThere THEN "./web" ELSE text

\* cJSON_GetObjectItemCaseSensitive: the first entry with that very key.
Lookup(entries, key) ==
  LET found == {k \in DOMAIN entries : entries[k].key = key}
  IN  IF found = {} THEN NotThere
      ELSE entries[CHOOSE k \in found : \A l \in found : k <= l].func

\* parse_pinctrl_config: every pin has a valid entry under its plain key, and
\* every entry, whatever its spelling, is of a pin and valid.
ValidFunc(func) == func \in Funcs   \* is_valid_pinctrl_func
ValidPinctrlUnchecked(entries) ==
  \A k \in DOMAIN entries : entries[k].key.index \in Pins /\ ValidFunc(entries[k].func)
ValidPinctrl(entries) ==
  /\ \A p \in Pins : ValidFunc(Lookup(entries, Plain(p)))
  /\ \A k \in DOMAIN entries : entries[k].key.index \in Pins /\ ValidFunc(entries[k].func)
Targets(entries) == [p \in Pins |-> Lookup(entries, Plain(p))]

\* check_object_all_strings, any_rule_needs_log_path; a rule is how many times
\* @LOG_FILE@ occurs in it.
AllStrings(object) == object = "strings"
NeedsLogFile(rules) == \E k \in DOMAIN rules : rules[k] > 0

ValidZlog(zlog) ==
  /\ zlog.logFile \notin {NotThere, TooLong}
  /\ AllStrings(zlog.global) /\ AllStrings(zlog.formats)
  /\ Len(zlog.rules) >= 1
  /\ \A k \in DOMAIN zlog.rules : zlog.rules[k] # NotThere
  /\ NeedsLogFile(zlog.rules) => zlog.logFile # Empty

\* substitute_log_file replaces the first occurrence.
Substitute(placeholders) == IF placeholders = 0 THEN 0 ELSE placeholders - 1
ZlogIni(zlog) == [k \in DOMAIN zlog.rules |-> Substitute(zlog.rules[k])]

-----------------------------------------------------------------------------
\* read_file_all and cJSON_Parse: the file is there and holds JSON.
Parses(file) == file.text = "json"

\* piduier_config_load, in the order of its checks.
Accepted(file) ==
  /\ Parses(file)
  /\ NonEmptyText(file.listen)
  /\ ValidPort(file.port)
  /\ ValidWebRoot(file.webRoot)
  /\ file.pinctrl # NotThere /\ ValidPinctrl(file.pinctrl)
  /\ file.zlog # NotThere /\ ValidZlog(file.zlog)

Load(file) ==
  IF Accepted(file)
  THEN [listen |-> file.listen, pinctrl |-> Targets(file.pinctrl),
        webRoot |-> WebRoot(file.webRoot), rules |-> ZlogIni(file.zlog)]
  ELSE NoConfig

=============================================================================
