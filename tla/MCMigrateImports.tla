---------------------------- MODULE MCMigrateImports ---------------------------
(* Constants under which TLC checks MigrateImports.                        *)
EXTENDS MigrateImports

\* contracts/A.sol and contracts/sub/B.sol.
MCFiles == {"A.sol", "B.sol"}
MCDirectories == {"contracts", "sub"}
MCChildren == [d \in MCDirectories |->
                  IF d = "contracts" THEN {"A.sol", "sub"} ELSE {"B.sol"}]

\* Two old paths of one contract.
MCPathUpdates == << <<"payment/PaymentSplitter", "finance/PaymentSplitter">>,
                    <<"utils/PaymentSplitter", "finance/PaymentSplitter">> >>

MCPaths == {"payment/PaymentSplitter", "utils/PaymentSplitter",
            "finance/PaymentSplitter", "other"}

\* Files of up to two imports; one may have been migrated, or be there twice.
MCOld == {<<"contracts", "payment/PaymentSplitter">>, <<"contracts", "utils/PaymentSplitter">>,
          <<"contracts-upgradeable", "payment/PaymentSplitter">>}
MCNew == <<"contracts", "finance/PaymentSplitter">>
MCContents == {<<>>, << <<"contracts", "other">> >>, <<MCNew>>,
               << <<"contracts", "payment/PaymentSplitter">> >>}
              \cup (MCOld \X (MCOld \cup {MCNew}))

\* The default, and paths that overlap.
MCArguments == {<<"contracts">>, <<"sub", "contracts">>}
===============================================================================
