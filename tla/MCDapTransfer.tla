--------------------------- MODULE MCDapTransfer ---------------------------
(* The packets of the runs of DapTransfer, laid out as IsPacket asks. *)
EXTENDS DapTransfer, FiniteSets

CONSTANTS
  MaxRequests,  \* requests in a DAP_Transfer
  MaxDecoded,   \* requests in one that is tried with every pattern of data
  MaxBlock,     \* words in a DAP_TransferBlock
  Ops,          \* the requests of a DAP_Transfer
  DecodeOps,    \* those that are tried with every pattern of data
  Patterns      \* what the four bytes of a data word decode to

(* The packet of kind with requests req, data[i] the bytes of the i-th word. *)
Layout(kind, req, data) ==
  LET n == Len(req)
      at[i \in 0 .. n] == IF i = 0 THEN 0 ELSE at[i - 1] + Size(kind, req[i])
      rank[i \in 0 .. n] == IF i = 0 THEN 0
                            ELSE rank[i - 1] + (IF IsRead(req[i]) THEN 1 ELSE 0)
      ByteAt(p) ==
        LET i == CHOOSE k \in 1 .. n : at[k - 1] < p /\ p <= at[k]
            b == p - at[i - 1]
        IN  IF kind = "block" THEN data[i][b]
            ELSE IF b = 1 THEN req[i] ELSE data[i][b - 1]
  IN  [kind |-> kind, req |-> req, byte |-> [p \in 1 .. at[n] |-> ByteAt(p)],
       end |-> at, rank |-> rank]

(* A choice of data for the requests that have some, where it is tried: in *)
(* short transfers, and in longer ones of which a single request has data. *)
Decoded(req) ==
  /\ \A i \in 1 .. Len(req) : req[i] \in DecodeOps
  /\ \/ Len(req) <= MaxDecoded
     \/ Cardinality({i \in 1 .. Len(req) : HasData(req[i])}) = 1
Datas(req) == {d \in [1 .. Len(req) -> Patterns] :
                 \A i \in 1 .. Len(req) :
                   (Decoded(req) /\ HasData(req[i])) \/ d[i] = CHOOSE w \in Patterns : TRUE}

TransferPackets ==
  UNION {UNION {{Layout("transfer", req, d) : d \in Datas(req)} : req \in [1 .. n -> Ops]}
           : n \in 0 .. MaxRequests}

BlockPackets ==
  UNION {{Layout("block", [i \in 1 .. n |-> o],
                 [i \in 1 .. n |-> CHOOSE w \in Patterns : TRUE])
            : o \in Ops \cap {"DPR", "APR", "DPW", "APW"}} : n \in 0 .. MaxBlock}

MCPackets == TransferPackets \cup BlockPackets

(* Bytes of data words: decoding as reads, as writes, and as both. *)
WordPatterns == {<<"DPR", "DPR", "DPR", "DPR">>, <<"DPW", "DPW", "DPW", "DPW">>,
                 <<"DPR", "DPR", "DPR", "DPW">>, <<"DPR", "DPW", "DPR", "DPR">>}
AllOps == {"DPR", "APR", "DPM", "APM", "DPW", "APW", "MASK"}

=============================================================================
