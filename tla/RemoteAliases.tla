---------------------------- MODULE RemoteAliases ----------------------------
(***************************************************************************)
(* The remote aliases of one dataset (RemoteAliasesRegistryImpl and        *)
(* RemoteAliasesImpl in src/kamu-core/src/infra/                           *)
(* remote_aliases_registry_impl.rs).                                       *)
(*                                                                         *)
(* The aliases live in the dataset's config file, a DatasetConfig with a   *)
(* pull and a push list.  get_remote_aliases reads the file (or takes the  *)
(* default config when there is none) into a RemoteAliasesImpl that keeps *)
(* its own copy; add, delete and clear change that copy and then write the *)
(* whole copy back with set_config.  Several handles may be obtained for   *)
(* the same dataset; nothing locks the file or re-reads it before writing. *)
(*                                                                         *)
(* write_config creates (truncates) the file and then serialises into it;  *)
(* the create or the write can fail.  A file left half-written makes       *)
(* read_config panic.  The variable told records, per alias, the last     *)
(* answer a caller received, to state what callers may rely on.            *)
(***************************************************************************)
EXTENDS Sequences, SequencesExt, FiniteSets

CONSTANTS
    Instances,      \* RemoteAliasesImpl handles obtained for the dataset
    Aliases,        \* remote dataset names
    Kinds,          \* RemoteAliasKind: {"Pull", "Push"}
    WriteFaults,    \* failures write_config may meet: "create", "write"
    NONE,           \* no config file / handle not obtained yet
    CORRUPT         \* a config file truncated by a failed write

ASSUME WriteFaults \subseteq {"create", "write"}

VARIABLES
    file,       \* the dataset's config file: NONE, CORRUPT or a config
    copy,       \* copy[i]: the config held by handle i, or NONE
    told        \* told[k][r]: the last answer about alias r of kind k

vars == <<file, copy, told>>

-----------------------------------------------------------------------------
(* Values *)

\* DatasetConfig: one list per kind; add keeps each list free of repeats.
Config == [Kinds -> {s \in Seq(Aliases) : IsInjective(s)}]

\* DatasetConfig::default()
EmptyConfig == [k \in Kinds |-> <<>>]

\* "added"/"deleted": Ok(true) of add/delete, or Ok(n) of a clear that
\* wrote; "saw_present"/"saw_absent": Ok(false), or Ok(0) of clear;
\* "unknown": nothing answered yet, or the last call returned an error.
Answer == {"added", "deleted", "saw_present", "saw_absent", "unknown"}

-----------------------------------------------------------------------------
(* RemoteAliasesRegistryImpl *)

\* read_config: opening and deserialising the file succeed unless a failed
\* write left it truncated; otherwise it panics.
ReadConfigOk == file # CORRUPT

\* get_config: the file's content, or the default config when it does not
\* exist.
GetConfigIgnoringFile == EmptyConfig

GetConfig == IF file = NONE THEN EmptyConfig ELSE file

\* set_config / write_config: File::create then serde_yaml::to_writer.
\* Either the file is replaced by c, or File::create fails and the file is
\* untouched, or the write fails after the truncation.
SetConfigOk(c) == file' = c

SetConfigFails ==
    \/ "create" \in WriteFaults /\ UNCHANGED file
    \/ "write" \in WriteFaults /\ file' = CORRUPT

\* mutant: the contains check of add never finds the alias
HasAliasNever(list, r) == FALSE

\* aliases.contains(&remote_ref)
HasAlias(list, r) == r \in ToSet(list)

-----------------------------------------------------------------------------

Init ==
    /\ file = NONE
    /\ copy = [i \in Instances |-> NONE]
    /\ told = [k \in Kinds |-> [r \in Aliases |-> "unknown"]]

\* RemoteAliasesRegistry::get_remote_aliases: a (new) handle with a copy of
\* the config as it is now.
GetRemoteAliases(i) ==
    /\ ReadConfigOk
    /\ copy' = [copy EXCEPT ![i] = GetConfig]
    /\ UNCHANGED <<file, told>>

\* RemoteAliases::add: push to the copy and write it back, unless present.
Add(i, k, r) ==
    /\ copy[i] # NONE
    /\ IF ~HasAlias(copy[i][k], r)
       THEN /\ copy' = [copy EXCEPT ![i][k] = Append(@, r)]
            /\ \/ SetConfigOk(copy'[i]) /\ told' = [told EXCEPT ![k][r] = "added"]
               \/ SetConfigFails /\ told' = [told EXCEPT ![k][r] = "unknown"]
       ELSE /\ told' = [told EXCEPT ![k][r] = "saw_present"]
            /\ UNCHANGED <<file, copy>>

\* RemoteAliases::delete: remove from the copy and write it back, if present.
Delete(i, k, r) ==
    /\ copy[i] # NONE
    /\ LET pos == SelectInSeq(copy[i][k], LAMBDA a : a = r) IN
       IF pos # 0
       THEN /\ copy' = [copy EXCEPT ![i][k] = RemoveAt(@, pos)]
            /\ \/ SetConfigOk(copy'[i]) /\ told' = [told EXCEPT ![k][r] = "deleted"]
               \/ SetConfigFails /\ told' = [told EXCEPT ![k][r] = "unknown"]
       ELSE /\ told' = [told EXCEPT ![k][r] = "saw_absent"]
            /\ UNCHANGED <<file, copy>>

\* RemoteAliases::clear: empty the list of kind k and write it back, unless
\* it was already empty.
Clear(i, k) ==
    /\ copy[i] # NONE
    /\ IF copy[i][k] # <<>>
       THEN /\ copy' = [copy EXCEPT ![i][k] = <<>>]
            /\ \/ SetConfigOk(copy'[i]) /\ told' = [told EXCEPT ![k] = [r \in Aliases |-> "deleted"]]
               \/ SetConfigFails /\ told' = [told EXCEPT ![k] = [r \in Aliases |-> "unknown"]]
       ELSE /\ told' = [told EXCEPT ![k] = [r \in Aliases |-> "saw_absent"]]
            /\ UNCHANGED <<file, copy>>

Next ==
    \E i \in Instances :
        \/ GetRemoteAliases(i)
        \/ \E k \in Kinds : \/ Clear(i, k)
                            \/ \E r \in Aliases : Add(i, k, r) \/ Delete(i, k, r)

Spec == Init /\ [][Next]_vars

-----------------------------------------------------------------------------
(* Properties *)

TypeOK ==
    /\ file \in Config \cup {NONE, CORRUPT}
    /\ copy \in [Instances -> Config \cup {NONE}]
    /\ told \in [Kinds -> [Aliases -> Answer]]

InFile(k, r) == file # NONE /\ HasAlias(file[k], r)

\* A change a caller was told succeeded stays in the file while the file is
\* readable: after add returned Ok(true) the alias is in the config file,
\* after delete returned Ok(true) or clear wrote, it is not, until another
\* call answers about it.  Each handle writes back its whole copy, so a
\* handle whose copy predates the change can undo it.
AcknowledgedChangesDurable ==
    ReadConfigOk =>
        \A k \in Kinds, r \in Aliases :
            /\ told[k][r] = "added" => InFile(k, r)
            /\ told[k][r] = "deleted" => ~InFile(k, r)

\* Every answer a caller got holds of the file, Ok(false) ones included:
\* add answering "already there" means the alias is in the config file.
\* add and delete compare against the handle's copy, which a failed
\* write has already changed.
AnswersTruthful ==
    ReadConfigOk =>
        \A k \in Kinds, r \in Aliases :
            /\ told[k][r] \in {"added", "saw_present"} => InFile(k, r)
            /\ told[k][r] \in {"deleted", "saw_absent"} => ~InFile(k, r)

\* The config file can always be read back: read_config panics on a file
\* it cannot deserialise, and write_config rewrites the file in place.
ConfigReadable == ReadConfigOk

====
