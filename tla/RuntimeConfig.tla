----------------------------- MODULE RuntimeConfig -----------------------------
(***************************************************************************)
(* The runtime configuration of embeddings: how the file, the environment   *)
(* and the defaults of a program are resolved to one runtime, in JavaScript *)
(* and again in Python; the catalog of what can be selected; and how a      *)
(* selection and the migration of keys rewrite the file.                    *)
(*                                                                         *)
(* The file is a record of defaults, providers, profiles and what is active.*)
(* A block has the settings that decide which vectors are made (model       *)
(* stands for the base URL too), whether a batch may fall back to hashing,  *)
(* and where the key is.  Unset stands for what is missing; delays, timeouts,  *)
(* batch sizes and descriptions are left out, as is the older name backend  *)
(* of an adapter.                                                           *)
(***************************************************************************)
EXTENDS Integers, FiniteSets, SequencesExt

Unset == "unset"

\* The key provider is that of a profile; no merge carries it over.
NoSettings == [provider |-> Unset, adapter |-> Unset, model |-> Unset, lenient |-> Unset,
               keyEnv |-> Unset, key |-> Unset]

\* What every caller passes as its defaults.
Defaults == [NoSettings EXCEPT !.adapter = "hash", !.model = "all-MiniLM-L6-v2", !.lenient = "no"]

\* The variables AI_MEMORY_EMBED_PROFILE, _PROVIDER, _BACKEND and _MODEL, which
\* count only where AI_MEMORY_ALLOW_EMBED_RUNTIME_ENV_OVERRIDES allows them, and
\* AI_MEMORY_EMBED_API_KEY_ENV, which always counts.
NoOverrides == [profile |-> Unset, provider |-> Unset, adapter |-> Unset, model |-> Unset, keyEnv |-> Unset]

\* What a block and a file look like.
ConfigBlock(block) ==
    block = [provider |-> block.provider, adapter |-> block.adapter, model |-> block.model,
             lenient |-> block.lenient, keyEnv |-> block.keyEnv, key |-> block.key]
ConfigFile(data) ==
    /\ data = [defaults |-> data.defaults, providers |-> data.providers, profiles |-> data.profiles,
               activeProfile |-> data.activeProfile, activeProvider |-> data.activeProvider]
    /\ ConfigBlock(data.defaults)
    /\ \A n \in DOMAIN data.providers : ConfigBlock(data.providers[n])
    /\ \A n \in DOMAIN data.profiles : ConfigBlock(data.profiles[n])

Or(x, y) == IF x # Unset THEN x ELSE y

Merge(block, over) == [k \in DOMAIN block |-> Or(over[k], block[k])]

----------------------------------------------------------------------------
\* Adapters.

KnownAdapters == {"hash", "transformer", "openai-compatible", "huggingface", "gemini"}

Canonical(adapter) ==
    CASE adapter = "hashing" -> "hash"
      [] adapter \in {"sentence-transformer", "sentence-transformers"} -> "transformer"
      [] adapter = "openai" -> "openai-compatible"
      [] OTHER -> adapter

\* Fault: the other names are unknown in Python.
OneName(adapter, python) ==
    LET name == IF python THEN adapter ELSE Canonical(adapter) IN IF python \/ name \in KnownAdapters THEN name ELSE Unset

\* runtime-config.js drops an adapter it does not know; runtime_support.py
\* keeps it.
NormalizeAdapter(adapter, python) ==
    LET name == Canonical(adapter) IN IF python \/ name \in KnownAdapters THEN name ELSE Unset

\* Every adapter a file or a variable names is one that both know.
Known(adapter) == Canonical(adapter) \in KnownAdapters \cup {Unset}
AdaptersKnown(data, env) ==
    /\ Known(data.defaults.adapter) /\ Known(env.adapter)
    /\ \A n \in DOMAIN data.providers : Known(data.providers[n].adapter)
    /\ \A n \in DOMAIN data.profiles : Known(data.profiles[n].adapter)

----------------------------------------------------------------------------
\* Resolution.

\* resolveNamedRegistryEntry: the first candidate there is, or the entry called
\* default, or the only one there is.
Named(registry, candidates) ==
    LET found == SelectSeq(candidates, LAMBDA name : name \in DOMAIN registry) IN
    IF found # <<>> THEN Head(found)
    ELSE IF "default" \in DOMAIN registry THEN "default"
    ELSE IF Cardinality(DOMAIN registry) = 1 THEN CHOOSE name \in DOMAIN registry : TRUE
    ELSE Unset

Block(registry, name) == IF name \in DOMAIN registry THEN registry[name] ELSE NoSettings

ProfileName(data, env) == Named(data.profiles, <<env.profile, data.activeProfile>>)
ProviderName(data, env, profile) ==
    Named(data.providers, <<env.provider, Block(data.profiles, profile).provider, data.activeProvider>>)

Resolved(data, env, python) ==
    LET profile == ProfileName(data, env)
        provider == ProviderName(data, env, profile)
        merged == Merge(Merge(data.defaults, Block(data.providers, provider)), Block(data.profiles, profile))
    IN  [profile |-> profile, provider |-> provider,
         adapter |-> Or(NormalizeAdapter(env.adapter, python), Or(NormalizeAdapter(merged.adapter, python), Defaults.adapter)),
         model |-> Or(env.model, Or(merged.model, Defaults.model)),
         lenient |-> Or(merged.lenient, Defaults.lenient),
         keyEnv |-> Or(env.keyEnv, merged.keyEnv), key |-> merged.key]

ResolveEmbeddingRuntime(data, env) == Resolved(data, env, FALSE)

\* The same in Python.
ResolveEmbeddingRuntimePy(data, env) == Resolved(data, env, TRUE)

\* The key comes from a variable that has a value, which is the one of that name
\* only where no variable names another; a key in the file is ignored.
DirectKey == "AI_MEMORY_EMBED_API_KEY"
HasKey(runtime, env, exported) ==
    runtime.keyEnv \in exported \/ (env.keyEnv = Unset /\ DirectKey \in exported)

\* buildEmbeddingConfigHash, equal only for the same backend and model.
HashConfig == <<"hash", "hashing-v1">>
ConfigHash(runtime) ==
    IF runtime.adapter = "hash" THEN HashConfig ELSE <<runtime.adapter, runtime.model>>

\* Fault: the model is left out.
SignatureOfAdapter(runtime) == <<runtime.adapter, runtime.lenient>>

\* What set_embedding_runtime compares to decide on a restart of the worker.
RestartSignature(runtime) ==
    <<runtime.profile, runtime.provider, runtime.adapter, runtime.model, runtime.lenient>>

----------------------------------------------------------------------------
\* What the server reports.

\* buildEmbeddingIndexState, of the set of hashes in the index.
IndexState(runtime, hashes) ==
    IF hashes = {} THEN "missing"
    ELSE IF Cardinality(hashes) > 1 THEN "mixed"
    ELSE IF hashes # {ConfigHash(runtime)} THEN "stale"
    ELSE "aligned"

\* The catalog's line for a profile; only a provider it names itself counts.
CatalogProfile(data, name) ==
    LET base == Merge(Defaults, data.defaults)
        profile == data.profiles[name]
        merged == Merge(Merge(base, Block(data.providers, profile.provider)), profile)
    IN  [adapter |-> Or(NormalizeAdapter(merged.adapter, FALSE), Or(NormalizeAdapter(base.adapter, FALSE), "hash")),
         model |-> merged.model]

----------------------------------------------------------------------------
\* Rewriting the file.

\* f applied to every block of the file.
EveryBlock(data, f(_)) ==
    [defaults |-> f(data.defaults), providers |-> [n \in DOMAIN data.providers |-> f(data.providers[n])],
     profiles |-> [n \in DOMAIN data.profiles |-> f(data.profiles[n])],
     activeProfile |-> data.activeProfile, activeProvider |-> data.activeProvider]

Keys(data) ==
    {data.defaults.key} \cup {data.providers[n].key : n \in DOMAIN data.providers}
        \cup {data.profiles[n].key : n \in DOMAIN data.profiles}
ContainsPlaintextApiKey(data) == Keys(data) # {Unset}

\* writeRuntimeConfig drops every key.
StripPlaintextApiKeys(data) == EveryBlock(data, LAMBDA block : [block EXCEPT !.key = Unset])

\* migrate-runtime-secrets.mjs names a variable in place of each key.
MigrateValue(data) ==
    EveryBlock(data, LAMBDA block :
        IF block.key = Unset THEN block ELSE [block EXCEPT !.key = Unset, !.keyEnv = Or(@, DirectKey)])

\* updateEmbeddingRuntimeSelection: a request that is refused,
Refused(data, request) ==
    \/ request.profile = Unset /\ request.provider = Unset /\ ~request.clearProfile /\ ~request.clearProvider
    \/ request.profile # Unset /\ request.profile \notin DOMAIN data.profiles
    \/ request.provider # Unset /\ request.provider \notin DOMAIN data.providers

\* and what it makes of the file otherwise.
Selection(data, request) ==
    [defaults |-> data.defaults, providers |-> data.providers, profiles |-> data.profiles,
     activeProfile |-> IF request.profile # Unset THEN request.profile
                       ELSE IF request.clearProfile \/ request.provider # Unset THEN Unset ELSE data.activeProfile,
     activeProvider |-> IF request.provider # Unset THEN request.provider
                        ELSE IF request.profile # Unset THEN data.profiles[request.profile].provider
                        ELSE IF request.clearProvider \/ request.clearProfile THEN Unset ELSE data.activeProvider]
=============================================================================
