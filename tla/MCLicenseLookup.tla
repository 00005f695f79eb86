---------------------------- MODULE MCLicenseLookup ----------------------------
(* A model-checking instance of LicenseLookup: packages of every ecosystem,   *)
(* most of them known to several services that disagree.                      *)
EXTENDS LicenseLookup, TLC

CONSTANTS w1, w2

Workers2 == {w1, w2}
Interchangeable == Permutations(Workers2)

Package(purl, license) == [purl |-> purl, license |-> license, root |-> FALSE]
P(type, path, version) == [type |-> type, path |-> path, version |-> version]

GoModule == P("golang", <<"gopkg.in", "yaml.v3">>, "v3.0.1")
Legacy == P("nuget", <<"Moq">>, "4.0")
Lodash == P("npm", <<"lodash">>, None)
Branch == P("composer", <<"acme", "log">>, "dev-main")
Wheel == P("pypi", <<"wheel">>, "unknown")
Workspace == P("npm", <<"own">>, "0.0.0-use.local")

Yaml == <<"go-yaml", "yaml">>
MoqRepo == <<"moq", "moq">>

Two == ("d1" :> <<Package(GoModule, NoLicense), Package(Legacy, NoLicense)>>)
    @@ ("d2" :> <<Package(GoModule, NoLicense), Package(Lodash, NoLicense), Package(Branch, NoLicense),
                  Package(Wheel, NoLicense), Package(Workspace, NoLicense),
                  Package(NoPURL, Join("", {"MPL 2.0"}))>>)

Redirects == <<"gopkg.in", "yaml.v3">> :> Yaml
Repositories == (Yaml :> [license |-> "NOASSERTION", file |-> "Apache-2.0", archived |-> TRUE])
             @@ (MoqRepo :> [license |-> "BSD-3-Clause", file |-> "", archived |-> FALSE])
Verified == (MoqRepo :> "BSD-3-Clause") @@ (Yaml :> "MIT")

Upstreams == [
  npm |-> Key(Lodash, None) :> [license |-> {}, licenses |-> {"MIT", "UNLICENSED"}],
  nuget |-> Key(Legacy, "4.0") :> [expression |-> "", url |-> "", repos |-> <<MoqRepo>>, bare |-> FALSE],
  depsdev |-> (Key(GoModule, "v3.0.1") :> [details |-> {}, licenses |-> {"MIT", "Apache-2.0"}])
           @@ (Key(Legacy, "4.0") :> [details |-> {[spdx |-> "non-standard", raw |-> "Moq License"]}, licenses |-> {}])
           @@ (Key(Wheel, "0.9") :> [details |-> {}, licenses |-> {"non-standard"}]),
  packagist |-> ([name |-> Key(Branch, None).name, version |-> "releases"] :> <<[version |-> "1.0", license |-> {"proprietary"}]>>)
             @@ ([name |-> Key(Branch, None).name, version |-> "branches"] :> <<[version |-> "dev-old", license |-> {"MIT"}]>>),
  pypi |-> Key(Wheel, None) :> [expression |-> "", classifiers |-> <<"MIT License">>, license |-> ""] ]

Defaults == (Key(Wheel, None).name :> "0.9") @@ (Key(Lodash, None).name :> None)

Spellings == ("MPL 2.0" :> "MPL-2.0") @@ ("proprietary" :> "LicenseRef-proprietary")
SPDXIds == {"MIT", "Apache-2.0", "BSD-3-Clause", "MPL-2.0", "LicenseRef-proprietary"}
Empty == {"", "NOASSERTION", "non-standard", "UNLICENSED"}
URLs == "opensource.org/licenses/mit" :> "MIT"
Trove == "MIT License" :> "MIT"
================================================================================
