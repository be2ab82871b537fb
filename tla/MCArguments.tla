----------------------------- MODULE MCArguments -----------------------------
EXTENDS AbiEcho, MCValues

MCResources == {<<Alice, ObjectCore>>, <<Alice, Token>>, <<Wide, ObjectCore>>}
=============================================================================
