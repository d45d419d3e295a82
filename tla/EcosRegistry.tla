---------------------------- MODULE EcosRegistry ----------------------------
(***************************************************************************)
(* The MIB registry of the ecos server (ecos_mib_reg.c over the chained    *)
(* hash table of ecos_shash32.c) and the configuration file that is saved  *)
(* from it and loaded into it (ecos_config_file.c, ecos_oem_database.c).   *)
(*                                                                         *)
(* A row of the table is the sequence of its nodes, each a key and the     *)
(* address of the registration it points to (arg); addresses are those     *)
(* malloc returns and free takes back.  An entry of the file is what one   *)
(* call wrote.  The text of a value is a sequence of symbols, those that   *)
(* the reader of the file tells apart: the quote, the backslash, the tags  *)
(* "<key " and "<val ", the line break, any other character, or a number   *)
(* as printed.  A key line holds a description and a type, neither with    *)
(* any of the first five; and no text spells, in the lines it makes of     *)
(* itself, a description or the words mib, type and index.                 *)
(*                                                                         *)
(* The only address rule, ecos_addr_rule_default, ignores the index, and   *)
(* comments are not read, so both are left out; so are the types u32, mac  *)
(* and hex, whose numbers are printed and scanned alike.  Nothing in the   *)
(* repository saves all MIBs: SaveFile writes, in the registration order,  *)
(* the lines that ecos_config_file_save_key and _save_val make of each MIB *)
(* that can be loaded.                                                     *)
(***************************************************************************)
EXTENDS Integers, FiniteSets, SequencesExt

CONSTANTS
    Mib,            \* keys, positive numbers
    Desc,           \* descriptions
    DescOf,         \* MIB -> the descriptions it may be registered with
    TypeOf,         \* MIB -> "ip" or "string"
    Loaded,         \* MIBs registered with a load_fn and ECOS_EXT_DB_SAVE
    Data,           \* MIB -> the values a parser may give its variable
    Default,        \* MIB -> the one at the start
    ROWS,           \* MIB_SHASH_ROW_COUNT
    Addr, NULL,     \* addresses of registrations
    Quote, Backslash, KeyTag, ValTag, Break, Char,      \* symbols of a text
    MaxFailed       \* bound: registrations that fail

Symbol == {Quote, Backslash, KeyTag, ValTag, Break, Char}

\* A string, or the four bytes of an ip.
Value(type) == IF type = "string" THEN Seq(Symbol) ELSE [1 .. 4 -> 0 .. 255]

ASSUME RegistryAssumption ==
    /\ Mib \subseteq Nat \ {0} /\ ROWS \in Nat \ {0} /\ MaxFailed \in Nat
    /\ DescOf \in [Mib -> SUBSET Desc] /\ TypeOf \in [Mib -> {"ip", "string"}]
    /\ Loaded \subseteq Mib
    /\ Default \in [Mib -> UNION {Data[m] : m \in Mib}]
    /\ \A m \in Mib : Default[m] \in Data[m] /\ \A v \in Data[m] : v \in Value(TypeOf[m])
    /\ \A m, n \in Mib : DescOf[m] \cap DescOf[n] # {} => TypeOf[m] = TypeOf[n]
    /\ NULL \notin Addr \cup Desc /\ NULL \notin [mib : Mib, desc : Desc]
    /\ Quote \notin {Backslash, KeyTag, ValTag, Break, Char}
    /\ KeyTag \notin {Backslash, ValTag, Break, Char} /\ Break \notin {Backslash, ValTag, Char}
    /\ Symbol \cap 0 .. 255 = {}

VARIABLES
    up,         \* s_mib_shash is not NULL
    rows,       \* row -> the nodes of its chain
    reg,        \* address -> the registration there, or NULL when it is free
    order,      \* the registration order list
    config,     \* MIB -> its variable in g_ConfigSet
    file,       \* the entries of the configuration file
    todo,       \* the entries a load has yet to read
    loading,    \* ecos_config_file_load runs
    info,       \* s_line_info: key and type of the last key line
    failed      \* history: registrations that failed

registry == <<up, rows, reg, order, failed>>
reader == <<todo, loading, info>>
vars == <<registry, config, file, reader>>

NoInfo == [key |-> NULL, type |-> NULL]

Init ==
    /\ up = FALSE
    /\ rows = [i \in 0 .. ROWS - 1 |-> <<>>]
    /\ reg = [a \in Addr |-> NULL]
    /\ order = <<>>
    /\ config = Default
    /\ file = <<>> /\ todo = <<>> /\ loading = FALSE
    /\ info = NoInfo
    /\ failed = 0

-----------------------------------------------------------------------------
(* ecos_shash32.c *)

Row(m) == m % ROWS

\* The first node of the row that has the key.
ecos_shash32_node_search(m) ==
    LET row == rows[Row(m)] IN
    IF \E k \in DOMAIN row : row[k].key = m
    THEN row[CHOOSE k \in DOMAIN row : row[k].key = m /\ \A j \in 1 .. k - 1 : row[j].key # m].arg
    ELSE NULL

Inserted(m, a) == [rows EXCEPT ![Row(m)] = Append(@, [key |-> m, arg |-> a])]

Removed(m) == [rows EXCEPT ![Row(m)] = RemoveFirstMatch(@, LAMBDA n : n.key = m)]

(* ecos_mib_reg.c *)

\* Rows in turn, and each from its first node.
ecos_mib_find_by_desc(d) ==
    LET nodes == FlattenSeq([i \in 1 .. ROWS |-> rows[i - 1]])
        first == SelectInSeq(nodes, LAMBDA n : reg[n.arg].desc = d)
    IN  IF first = 0 THEN NULL ELSE nodes[first].arg

ecos_mib_reg_init ==
    /\ ~up
    /\ up' = TRUE
    /\ order' = <<>>
    /\ rows' = [i \in 0 .. ROWS - 1 |-> <<>>]
    /\ UNCHANGED <<reg, failed, config, file, reader>>

\* Mutant of add_mib_register_order: the list is not searched first.
add_mib_again(m) == Append(order, m)
add_mib_register_order(m) == IF m \in ToSet(order) THEN order ELSE Append(order, m)

\* A description that exists already is only warned of.
Register(m, d) ==
    /\ up /\ ~loading
    /\ ecos_shash32_node_search(m) = NULL
    /\ \E a \in Addr :
         /\ reg[a] = NULL
         /\ reg' = [reg EXCEPT ![a] = [mib |-> m, desc |-> d]]
         /\ rows' = Inserted(m, a)
    /\ order' = add_mib_register_order(m)
    /\ UNCHANGED <<up, failed, config, file, reader>>

\* ECOS_REG_ERROR_MIB_USED: the registration stays allocated.
RegisterUsed(m, d) ==
    /\ up /\ ~loading /\ failed < MaxFailed
    /\ ecos_shash32_node_search(m) # NULL
    /\ \E a \in Addr :
         /\ reg[a] = NULL
         /\ reg' = [reg EXCEPT ![a] = [mib |-> m, desc |-> d]]
    /\ failed' = failed + 1
    /\ UNCHANGED <<up, rows, order, config, file, reader>>

\* Mutant of ecos_mib_unregister: arg is not freed.
UnregisterKeepsArg(m) ==
    /\ up /\ ~loading
    /\ ecos_shash32_node_search(m) # NULL
    /\ rows' = Removed(m)
    /\ UNCHANGED <<up, reg, order, failed, config, file, reader>>

ecos_mib_unregister(m) ==
    /\ up /\ ~loading
    /\ ecos_shash32_node_search(m) # NULL
    /\ reg' = [reg EXCEPT ![ecos_shash32_node_search(m)] = NULL]
    /\ rows' = Removed(m)
    /\ UNCHANGED <<up, order, failed, config, file, reader>>

\* The order list, what the nodes point to, and the table.
ecos_mib_reg_free ==
    /\ up /\ ~loading
    /\ up' = FALSE
    /\ order' = <<>>
    /\ reg' = [a \in Addr |->
                 IF \E i \in DOMAIN rows : \E k \in DOMAIN rows[i] : rows[i][k].arg = a
                 THEN NULL ELSE reg[a]]
    /\ rows' = [i \in 0 .. ROWS - 1 |-> <<>>]
    /\ UNCHANGED <<failed, config, file, reader>>

\* A parser sets a variable of g_ConfigSet.
Write(m) ==
    /\ up /\ ~loading
    /\ ecos_shash32_node_search(m) # NULL
    /\ \E v \in Data[m] : config' = [config EXCEPT ![m] = v]
    /\ UNCHANGED <<registry, file, reader>>

-----------------------------------------------------------------------------
(* ecos_config_file.c.  An ip is the four bytes of its number in memory,    *)
(* least significant first.                                                 *)

\* ecos_config_file_save_val: "%hhu.%hhu.%hhu.%hhu" from the last byte, or "%s".
SavedText(type, v) == IF type = "ip" THEN Reverse(v) ELSE v

KeyLine(d, type) == [kind |-> "key", key |-> d, type |-> type, text |-> <<>>]
ValLine(type, v) ==
    [kind |-> "val", key |-> NULL, type |-> type,
     text |-> <<ValTag, Quote>> \o SavedText(type, v) \o <<Quote, Char>>]
EndLine == [kind |-> "end", key |-> NULL, type |-> NULL, text |-> <<>>]

SavedLines(m, d) == <<KeyLine(d, TypeOf[m]), ValLine(TypeOf[m], config[m]), EndLine>>

\* The file as far as it got: the lines are written one by one.
SaveFile ==
    /\ up /\ ~loading
    /\ LET LinesOf(m) ==
               IF m \in Loaded /\ ecos_shash32_node_search(m) # NULL
               THEN SavedLines(m, reg[ecos_shash32_node_search(m)].desc) ELSE <<>>
           lines == FlattenSeq([i \in 1 .. Len(order) |-> LinesOf(order[i])])
       IN  \E n \in 0 .. Len(lines) : file' = SubSeq(lines, 1, n)
    /\ UNCHANGED <<registry, config, reader>>

\* Where a symbol is first, or 0.
strstr(buf, symbol) == SelectInSeq(buf, LAMBDA c : c = symbol)

\* Mutant of read_content: a backslash is always copied.
read_content_verbatim(buf) ==
    LET first == strstr(buf, Quote)
        Rest[p \in 1 .. Len(buf) + 2] ==
            IF p > Len(buf) THEN [ok |-> FALSE, text |-> <<>>]
            ELSE IF buf[p] = Quote THEN [ok |-> TRUE, text |-> <<>>]
            ELSE [Rest[p + 1] EXCEPT !.text = <<buf[p]>> \o @]
    IN  IF first = 0 THEN [ok |-> FALSE, text |-> <<>>] ELSE Rest[first + 1]

\* From the first quote to the next that has no backslash before it.
read_content(buf) ==
    LET first == strstr(buf, Quote)
        Rest[p \in 1 .. Len(buf) + 2] ==
            IF p > Len(buf) THEN [ok |-> FALSE, text |-> <<>>]
            ELSE IF buf[p] = Backslash /\ p < Len(buf) /\ buf[p + 1] = Quote
            THEN [Rest[p + 2] EXCEPT !.text = <<Quote>> \o @]
            ELSE IF buf[p] = Quote THEN [ok |-> TRUE, text |-> <<>>]
            ELSE [Rest[p + 1] EXCEPT !.text = <<buf[p]>> \o @]
    IN  IF first = 0 THEN [ok |-> FALSE, text |-> <<>>] ELSE Rest[first + 1]

\* fgets: the lines a text makes begin where it does and after each line break.
Starts(text) == {1} \cup {i + 1 : i \in {j \in DOMAIN text : text[j] = Break}}
LineFrom(text, i) ==
    SubSeq(text, i, Min({j \in i .. Len(text) + 1 : j = Len(text) + 1 \/ text[j] = Break}) - 1)

\* What read_content is given: the line from where strstr finds the tag.
Has(line, tag) == strstr(line, tag) # 0
Tagged(line, tag) == read_content(SubSeq(line, strstr(line, tag), Len(line)))

\* file_get_line: a line with the tag of a key anywhere is a key line.
Rekeyed(text) ==
    {i \in Starts(text) :
        LET line == LineFrom(text, i) IN Has(line, KeyTag) /\ Tagged(line, KeyTag).ok}
Valued(text) ==
    {i \in Starts(text) :
        LET line == LineFrom(text, i)
        IN  ~Has(line, KeyTag) /\ Has(line, ValTag) /\ Tagged(line, ValTag).ok}

\* The value that stays: the last one before a line that names another key.
TextRead(text) ==
    LET given == {i \in Valued(text) : \A j \in Rekeyed(text) : i < j}
    IN  IF given = {} THEN [ok |-> FALSE, text |-> <<>>]
        ELSE Tagged(LineFrom(text, Max(given)), ValTag)

\* "%hhu.%hhu.%hhu.%hhu" into the first byte and on, or strcpy.
read_type_val(type, text) == IF type = "ip" THEN SubSeq(text, 1, 4) ELSE text

\* ntohl, on a machine that has the least significant byte first.
ntohl(v) == Reverse(v)

\* Mutant of ecos_load_common: the order of the bytes is left as it was read.
load_common_no_ntohl(m, v) == [config EXCEPT ![m] = v]

ecos_load_common(m, v) ==
    [config EXCEPT ![m] = IF TypeOf[m] = "ip" THEN ntohl(v) ELSE v]

(* ecos_config_file_load *)

LoadOpen ==
    /\ up /\ ~loading
    /\ loading' = TRUE
    /\ todo' = file
    /\ UNCHANGED <<registry, config, file, info>>

LoadKeyLine ==
    /\ loading /\ todo # <<>> /\ Head(todo).kind = "key"
    /\ info' = [key |-> Head(todo).key, type |-> Head(todo).type]
    /\ todo' = Tail(todo)
    /\ UNCHANGED <<registry, config, file, loading>>

\* The lines of what one ecos_config_file_save_val wrote.  A value goes to the MIB
\* found by the key, if that one is loaded at all.
LoadValLine ==
    /\ loading /\ todo # <<>> /\ Head(todo).kind = "val"
    /\ LET content == TextRead(Head(todo).text)
           a == ecos_mib_find_by_desc(info.key)
       IN  config' = IF content.ok /\ a # NULL /\ reg[a].mib \in Loaded
                     THEN ecos_load_common(reg[a].mib, read_type_val(info.type, content.text))
                     ELSE config
    /\ info' = IF Rekeyed(Head(todo).text) = {} THEN info ELSE [key |-> NULL, type |-> info.type]
    /\ todo' = Tail(todo)
    /\ UNCHANGED <<registry, file, loading>>

LoadOtherLine ==
    /\ loading /\ todo # <<>> /\ Head(todo).kind = "end"
    /\ todo' = Tail(todo)
    /\ UNCHANGED <<registry, config, file, loading, info>>

LoadEnd ==
    /\ loading /\ todo = <<>>
    /\ loading' = FALSE
    /\ UNCHANGED <<registry, config, file, todo, info>>

\* The process ends, or is killed, and is started again.  It registers its MIBs,
\* loads the file and then sets its own address (EcosConfig); here that is a
\* Register, a Load and a Write among others.
Restart ==
    /\ up' = FALSE
    /\ rows' = [i \in 0 .. ROWS - 1 |-> <<>>]
    /\ reg' = [a \in Addr |-> NULL]
    /\ order' = <<>> /\ failed' = 0
    /\ config' = Default
    /\ todo' = <<>> /\ loading' = FALSE /\ info' = NoInfo
    /\ UNCHANGED file

Load == LoadOpen \/ LoadKeyLine \/ LoadValLine \/ LoadOtherLine \/ LoadEnd

Next ==
    \/ ecos_mib_reg_init \/ ecos_mib_reg_free \/ SaveFile \/ Load \/ Restart
    \/ \E m \in Mib : \/ ecos_mib_unregister(m) \/ Write(m)
                      \/ \E d \in DescOf[m] : Register(m, d) \/ RegisterUsed(m, d)

Spec == Init /\ [][Next]_vars

-----------------------------------------------------------------------------
TypeOK ==
    /\ up \in BOOLEAN /\ loading \in BOOLEAN /\ failed \in 0 .. MaxFailed
    /\ \A i \in 0 .. ROWS - 1 : rows[i] \in Seq([key : Mib, arg : Addr])
    /\ \A a \in Addr : reg[a] = NULL \/ reg[a] \in [mib : Mib, desc : Desc]
    /\ order \in Seq(Mib)
    /\ \A m \in Mib : config[m] \in Value(TypeOf[m])
    /\ info.key \in Desc \cup {NULL}

Nodes == UNION {{rows[i][k] : k \in DOMAIN rows[i]} : i \in DOMAIN rows}

\* Every registration but those that failed is freed by ecos_mib_unregister or
\* ecos_mib_reg_free, and none while a node points to it: what is allocated is what
\* the nodes point to, one each, and one for each ecos_mib_register that failed.
OnlyFailedLeak ==
    /\ \A n \in Nodes : reg[n.arg] # NULL /\ reg[n.arg].mib = n.key
    /\ Cardinality({a \in Addr : reg[a] # NULL}) = Cardinality(Nodes) + failed

Escaped(text) ==
    FlattenSeq([i \in 1 .. Len(text) |-> IF text[i] = Quote THEN <<Backslash, Quote>> ELSE <<text[i]>>])

\* "if you need add character ", please set escape code \"" (the head of the file): a
\* text whose quotes are escaped is read back as it was, for every text that does not
\* end with a backslash.
EscapedIsRead ==
    \A m \in Mib :
        (TypeOf[m] = "string" /\ (config[m] = <<>> \/ Last(config[m]) # Backslash))
            => read_content(<<Quote>> \o Escaped(config[m]) \o <<Quote>>) = [ok |-> TRUE, text |-> config[m]]

\* What save_val printed between the quotes, and texts that are read back as they are.
Between(line) == SubSeq(line.text, 3, Len(line.text) - 2)
Plain(text) ==
    /\ ToSet(text) \cap {Quote, KeyTag, Break} = {}
    /\ text = <<>> \/ Last(text) # Backslash

Original(m, text) ==
    IF TypeOf[m] = "ip" THEN <<text[4], text[3], text[2], text[1]>> ELSE text

\* Key line i is the only one of the MIB of node n, the only node that its description
\* finds, and no text of the file can spell lines that are not its own.
SavedAt(n, i) ==
    /\ n.key \in Loaded
    /\ \A x \in Nodes : reg[x.arg].desc = reg[n.arg].desc => x = n
    /\ file[i].kind = "key" /\ file[i].key = reg[n.arg].desc
    /\ \A j \in 1 .. Len(file) : (file[j].kind = "key" /\ file[j].key = file[i].key) => j = i
    /\ \A j \in 1 .. Len(file) : file[j].kind = "val" => ~({Quote, Break} \subseteq ToSet(Between(file[j])))

\* A value that was saved is the value that is loaded, also after a restart, with
\* MIBs registered in another order, or from a file that was cut off: for each MIB
\* that is loaded, whose description no other has now or had in the file, and whose
\* text has no quote, line break or tag of a key line, and no backslash at its end.
SavedIsLoaded ==
    loading /\ todo = <<>> =>
        \A n \in Nodes : \A i \in 1 .. Len(file) - 1 :
            SavedAt(n, i) /\ Plain(Between(file[i + 1]))
                => config[n.key] = Original(n.key, Between(file[i + 1]))

\* The same as the head of the file has it, where only a quote asks for an escape
\* (ecos_config_file.c:409).  It does not hold: a line is taken for a key line whose
\* value has the tag of one (:189), and fgets splits one at a line break (:182).
QuotelessIsLoaded ==
    loading /\ todo = <<>> =>
        \A n \in Nodes : \A i \in 1 .. Len(file) - 1 :
            SavedAt(n, i) /\ Quote \notin ToSet(Between(file[i + 1]))
                => config[n.key] = Original(n.key, Between(file[i + 1]))

Map == INSTANCE MibMap WITH
    open <- up,
    map <- [m \in {n \in Mib : ecos_shash32_node_search(n) # NULL} |->
                reg[ecos_shash32_node_search(m)].desc]

\* The table finds exactly what is registered, under any sequence of calls and
\* collisions, and the order list is that of first registrations.
ImplementsMap == Map!Spec
=============================================================================
