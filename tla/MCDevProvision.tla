---------------------------- MODULE MCDevProvision ----------------------------
(* DevProvision with two token ids, one value that is none, and two keys. *)
EXTENDS DevProvision

CONSTANTS t1, t2, spaced, blank

MCSettingsFiles == [transitKey : {"", "k", "a/b"}, externalInstances : {<<>>}]
MCRequestValues ==
    [environment : {"local"}, profile : {"ephemeral"}, references : {<<>>},
     token : {t1, t2, spaced, blank}, port : {NativePort}]
===============================================================================
