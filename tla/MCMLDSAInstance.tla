-------------------------- MODULE MCMLDSAInstance --------------------------
EXTENDS MLDSAInstance

\* two context lengths on either side of the 255-byte limit
MCCtxLens == {0, 256}

\* a supported pre-hash and one the code does not know; the three
\* supported ones take the same path
MCPreHashes == {"SHA-256", "SHA3-256"}

\* the three real names and one ML_DSA_PARAM does not hold
MCNames == {"ml-dsa-44", "ml-dsa-65", "ml-dsa-87", "ml-dsa-128"}
=============================================================================
