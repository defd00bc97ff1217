--------------------------- MODULE MCEmbeddingIndex ---------------------------
EXTENDS EmbeddingIndex

CONSTANTS b1, b2,    \* builders
          v1, v2     \* servers

Builders == {b1, b2}
Servers == {v1, v2}
Variables == {DirectKey}
Texts == {"old", "new"}
NoText == "none"

Hashing == [NoSettings EXCEPT !.adapter = "hash", !.model = "hashing-v1"]
Remote == [NoSettings EXCEPT !.adapter = "openai", !.model = "small", !.lenient = "yes", !.keyEnv = DirectKey]
Unsafe == [Remote EXCEPT !.lenient = "no", !.keyEnv = Unset, !.key = "secret"]
Of(provider) == [NoSettings EXCEPT !.provider = provider]

\* The file that is shipped, and others.
Shipped ==
    [defaults |-> Hashing, providers |-> [local |-> Hashing], profiles |-> [local |-> Of("local")],
     activeProfile |-> "local", activeProvider |-> "local"]
TwoProviders(remote) ==
    [Shipped EXCEPT !.providers = [local |-> Hashing, remote |-> remote],
                    !.profiles = [local |-> Of("local"), remote |-> Of("remote")]]
\* A profile with a model of its own, one whose provider is missing, an adapter
\* under another name and one that builds do not have.
Odd ==
    [defaults |-> NoSettings,
     providers |-> [default |-> [Remote EXCEPT !.model = Unset, !.lenient = "no"], face |-> [NoSettings EXCEPT !.adapter = "huggingface"]],
     profiles |-> [own |-> [Of("default") EXCEPT !.model = "large"], lost |-> Of("gone"),
                   hashed |-> [Of("default") EXCEPT !.adapter = "hashing"]],
     activeProfile |-> "own", activeProvider |-> Unset]
OneProfile == [TwoProviders(Remote) EXCEPT !.profiles = [local |-> Of("local")]]

Ask(profile, provider, clear) ==
    [profile |-> profile, provider |-> provider, clearProfile |-> clear, clearProvider |-> clear]
Asked == {Ask("local", Unset, FALSE), Ask("remote", Unset, FALSE), Ask(Unset, "face", FALSE), Ask("lost", Unset, FALSE),
          Ask("hashed", Unset, FALSE), Ask(Unset, "remote", FALSE), Ask(Unset, Unset, TRUE)}

Setting(builders, servers, texts, data, requests) ==
    [builders |-> builders, servers |-> servers, docs |-> texts, file |-> data, requests |-> requests,
     apart |-> FALSE, migrates |-> FALSE, env |-> NoOverrides, edited |-> {}, faults |-> FALSE]
AllOld == [e \in 1..3 |-> "old"]
Mixed == [e \in 1..3 |-> <<"new", "old", "none">>[e]]

Building == [Setting({b1, b2}, {}, AllOld, [TwoProviders(Remote) EXCEPT !.activeProfile = "remote"], {})
                EXCEPT !.edited = {2}, !.faults = TRUE]
Switching == [Setting({b1}, {v1}, Mixed, TwoProviders(Remote), {Ask("remote", Unset, FALSE), Ask("local", Unset, FALSE)})
                 EXCEPT !.edited = {1}]
Choosing == [Setting({b1}, {v1}, Mixed, Odd, Asked) EXCEPT !.faults = TRUE]
Migrating == [Setting({}, {v1, v2}, Mixed, TwoProviders(Unsafe), {Ask("remote", Unset, FALSE), Ask(Unset, "remote", FALSE)}) EXCEPT !.migrates = TRUE]
Apart == [Setting({b1}, {v1}, Mixed, OneProfile, Asked) EXCEPT !.apart = TRUE]
Overridden == [Setting({b1}, {v1}, Mixed, OneProfile, Asked) EXCEPT !.env = [NoOverrides EXCEPT !.adapter = "sentence-transformers"]]
\* The environment names a variable for the key that has no value.
Misnamed == [Setting({b1}, {v1}, Mixed, TwoProviders(Remote), {Ask("remote", Unset, FALSE)})
                EXCEPT !.env = [NoOverrides EXCEPT !.keyEnv = "OTHER_KEY"]]
AllSettings == {Building, Switching, Choosing, Migrating, Apart, Overridden, Misnamed}
=============================================================================
